---- MODULE Spec2Model ----
(***************************************************************************)
(* A model of pbprobe: the PostgreSQL wire-protocol parser                 *)
(* (src/src/protocol/postgres.rs), the dual-direction relay                *)
(* (src/src/proxy.rs) and the correlator (src/src/stats.rs).               *)
(*                                                                         *)
(* Bytes are naturals below 256, strings and buffers are sequences of      *)
(* bytes.  An Option is a record with a field some.  A HashMap is a        *)
(* function whose DOMAIN is the set of keys present.                       *)
(***************************************************************************)
EXTENDS Integers, Sequences, FiniteSets, TLC

VARIABLES
    \* ---- parser driven frame by frame (SpecParser)
    parser,       \* PostgresParser: [phase, statements, portals]
    lastOp,       \* the frontend message handed to try_parse last
    lastEvent,    \* the Option<(ProtoEvent, usize)> try_parse returned for it
    refStmts,     \* observer: statement name -> SQL of its last Parse, if not closed
    refPortals,   \* observer: portal name -> statement name of its last Bind
    bindSql,      \* observer: portal name -> SQL its statement had at the Bind
    trace,        \* observer: the messages and events so far, while they follow scenario 3
    \* ---- the correlator driven call by call (SpecStats)
    stats,        \* StatsCollector
    clock,        \* what Instant::now() returns, in milliseconds
    life,         \* conn id -> "new", "open" (ConnectionOpened sent), "dropped" or "aborted"
    display,      \* the Option<DisplayEvent> the last call of the collector returned
    strace,       \* observer: how far the calls of one connection follow scenario 4
    top,          \* the dashboard's view of the aggregates: [iteration, called, n, result]
    closed,       \* observer of SpecClose: conn id -> how often a call for it returned
                  \* ConnectionClosed and how often one took it off active_connections
                  \* (2: more than once)
    \* ---- one proxied connection (SpecRelay)
    clientSock,   \* the client's socket: [out, ssl, rd, wr]
    upstreamSock, \* the upstream socket and the server behind it
    frontend,     \* the relay_frontend task: [pc, n, parse_buf, off, intercept_response, events]
    backend,      \* the relay_backend task: [pc, parse_buf, events, chunks]
    clientWriter, \* the client writer task: [pc, data]
    interceptChan,    \* mpsc::channel::<Vec<u8>>(4)
    clientWriteChan,  \* mpsc::channel::<Bytes>(256)
    eventsChan,   \* mpsc::channel::<ProxyMessage>(1024): [queue, backlog]
    connTask      \* run_proxy and handle_connection for the connection: [pc, aborted]

\* the observers of SpecParser
pobs == <<lastOp, lastEvent, refStmts, refPortals, bindSql, trace>>

pvars == <<parser, pobs>>

svars == <<stats, clock, life, display, strace, top, closed>>

rvars == <<clientSock, upstreamSock, frontend, backend, clientWriter,
           interceptChan, clientWriteChan, eventsChan, connTask>>

vars == <<pvars, svars, rvars>>

----------------------------------------------------------------------------
(* Bytes and strings *)

NUL == 0

\* buf.iter().position(|&b| b == x): the 1-based index of the first x at or
\* after index i, 0 when there is none
position(buf, x, i) ==
    IF \E j \in i..Len(buf) : buf[j] = x
    THEN CHOOSE j \in i..Len(buf) : buf[j] = x /\ \A k \in i..(j - 1) : buf[k] # x
    ELSE 0

\* u32::from_be_bytes
from_be_bytes(b0, b1, b2, b3) == ((b0 * 256 + b1) * 256 + b2) * 256 + b3

\* u32::to_be_bytes
to_be_bytes(n) ==
    << n \div 16777216, (n \div 65536) % 256, (n \div 256) % 256, n % 256 >>

None == [some |-> FALSE]

Some(v) == [some |-> TRUE, val |-> v]

\* the bytes b[from..to] (1-based, inclusive), the slice &buf[from-1..to]
slice(buf, from, to) == SubSeq(buf, from, to)

\* a UTF-8 continuation byte, 0x80..=0xBF
is_cont(b) == b >= 128 /\ b <= 191

\* the length of the valid UTF-8 sequence that starts at buf[i], 0 when the
\* bytes there are no valid sequence (core::str::from_utf8's table)
utf8_valid_len(buf, i) ==
    LET n == Len(buf)
        b0 == buf[i]
        b1 == IF i + 1 <= n THEN buf[i + 1] ELSE 0
        b2 == IF i + 2 <= n THEN buf[i + 2] ELSE 0
        b3 == IF i + 3 <= n THEN buf[i + 3] ELSE 0
        second3 == CASE b0 = 224 -> b1 >= 160 /\ b1 <= 191
                     [] b0 = 237 -> b1 >= 128 /\ b1 <= 159
                     [] OTHER    -> is_cont(b1)
        second4 == CASE b0 = 240 -> b1 >= 144 /\ b1 <= 191
                     [] b0 = 244 -> b1 >= 128 /\ b1 <= 143
                     [] OTHER    -> is_cont(b1)
    IN  IF b0 < 128 THEN 1
        ELSE IF b0 >= 194 /\ b0 <= 223 THEN (IF is_cont(b1) THEN 2 ELSE 0)
        ELSE IF b0 >= 224 /\ b0 <= 239
             THEN (IF second3 /\ is_cont(b2) THEN 3 ELSE 0)
        ELSE IF b0 >= 240 /\ b0 <= 244
             THEN (IF second4 /\ is_cont(b2) /\ is_cont(b3) THEN 4 ELSE 0)
        ELSE 0

\* the number of bytes of the invalid sequence at buf[i] that one U+FFFD
\* replaces: the maximal prefix of a valid sequence, at least one byte
utf8_invalid_len(buf, i) ==
    LET n == Len(buf)
        b0 == buf[i]
        b1 == IF i + 1 <= n THEN buf[i + 1] ELSE 0
        b2 == IF i + 2 <= n THEN buf[i + 2] ELSE 0
        second3 == CASE b0 = 224 -> b1 >= 160 /\ b1 <= 191
                     [] b0 = 237 -> b1 >= 128 /\ b1 <= 159
                     [] OTHER    -> is_cont(b1)
        second4 == CASE b0 = 240 -> b1 >= 144 /\ b1 <= 191
                     [] b0 = 244 -> b1 >= 128 /\ b1 <= 143
                     [] OTHER    -> is_cont(b1)
    IN  IF b0 >= 224 /\ b0 <= 239 THEN (IF second3 THEN 2 ELSE 1)
        ELSE IF b0 >= 240 /\ b0 <= 244
             THEN (IF ~second4 THEN 1 ELSE IF is_cont(b2) THEN 3 ELSE 2)
        ELSE 1

\* U+FFFD REPLACEMENT CHARACTER in UTF-8
REPLACEMENT == <<239, 191, 189>>

\* the index after the run of ASCII bytes that starts at buf[i]
ascii_run_end(buf, i) ==
    IF \E j \in i..Len(buf) : buf[j] >= 128
    THEN CHOOSE j \in i..Len(buf) : buf[j] >= 128 /\ \A k \in i..(j - 1) : buf[k] < 128
    ELSE Len(buf) + 1

\* the bytes buf[i..end-1] copied
lossy_copy(buf, i, end) == [out |-> slice(buf, i, end - 1), next |-> end]

\* one step of from_utf8_lossy at buf[i]: a run of ASCII bytes or one valid
\* sequence of length v is copied, an invalid sequence (v = 0) becomes
\* U+FFFD; next is the index after it
lossy_char(buf, i, v) ==
    IF buf[i] < 128 THEN lossy_copy(buf, i, ascii_run_end(buf, i))
    ELSE IF v > 0 THEN lossy_copy(buf, i, i + v)
    ELSE [out |-> REPLACEMENT, next |-> i + utf8_invalid_len(buf, i)]

RECURSIVE from_utf8_lossy_at(_, _, _)
\* b decoded after a
lossy_join(a, b) == [out |-> a.out \o b.out, next |-> b.next]

\* the steps that follow a, k of them at most
lossy_then(buf, a, k) == lossy_join(a, from_utf8_lossy_at(buf, a.next, k))

\* at most k steps of from_utf8_lossy from buf[i] on (the steps are halved
\* to keep the evaluation shallow)
from_utf8_lossy_at(buf, i, k) ==
    IF i > Len(buf) \/ k = 0 THEN [out |-> <<>>, next |-> i]
    ELSE IF k = 1 THEN lossy_char(buf, i, utf8_valid_len(buf, i))
    ELSE lossy_then(buf, from_utf8_lossy_at(buf, i, k \div 2), k - (k \div 2))

\* String::from_utf8_lossy(buf).into_owned()
from_utf8_lossy(buf) == from_utf8_lossy_at(buf, 1, Len(buf)).out

\* str::is_char_boundary(i), i a 0-based byte offset
is_char_boundary(s, i) ==
    IF i = 0 \/ i = Len(s) THEN TRUE
    ELSE IF i > Len(s) THEN FALSE
    ELSE ~is_cont(s[i + 1])

----------------------------------------------------------------------------
(* src/src/protocol/postgres.rs *)

SSL_REQUEST_CODE == 80877103
STARTUP_VERSION_3_0 == 196608
CANCEL_REQUEST_CODE == 80877102
MAX_SQL_LEN == 4096

\* ConnPhase
AwaitingStartup == "AwaitingStartup"
AwaitingStartupAfterSslReject == "AwaitingStartupAfterSslReject"
Authenticating == "Authenticating"
Ready == "Ready"

\* Direction
Frontend == "Frontend"
Backend == "Backend"

\* the ASCII codes the parser matches on
b_B == 66
b_C == 67
b_D == 68
b_E == 69
b_H == 72
b_I == 73
b_M == 77
b_N == 78
b_P == 80
b_Q == 81
b_S == 83
b_T == 84
b_X == 88
b_Z == 90
b_space == 32
b_plus == 43
b_zero == 48
b_nine == 57

\* HashMap::new()
EmptyMap == [k \in {} |-> <<>>]

\* HashMap::insert
insert(m, k, v) == [x \in DOMAIN m \cup {k} |-> IF x = k THEN v ELSE m[x]]

\* mutant of remove: the map is cleared
remove_clears(m, k) == EmptyMap

\* HashMap::remove
remove(m, k) == [x \in DOMAIN m \ {k} |-> m[x]]

\* PostgresParser::new
PostgresParser_new ==
    [phase |-> AwaitingStartup, statements |-> EmptyMap, portals |-> EmptyMap]

\* extract_cstring: the bytes before the first NUL, None without a NUL
extract_cstring(buf) ==
    LET end == position(buf, NUL, 1)
    IN  IF end = 0 THEN None
        ELSE Some(from_utf8_lossy(slice(buf, 1, end - 1)))

\* Option<String>::unwrap_or_default
unwrap_or_default(o) == IF o.some THEN o.val ELSE <<>>

RECURSIVE last_char_boundary(_, _)
\* the while loop of truncate_sql: the last char boundary at or before end
last_char_boundary(sql, end) ==
    IF end > 0 /\ ~is_char_boundary(sql, end)
    THEN last_char_boundary(sql, end - 1)
    ELSE end

\* "..."
Ellipsis == <<46, 46, 46>>

truncate_sql(sql) ==
    IF Len(sql) <= MAX_SQL_LEN THEN sql
    ELSE slice(sql, 1, last_char_boundary(sql, MAX_SQL_LEN)) \o Ellipsis

RECURSIVE rposition(_, _, _)
\* the 1-based index of the last x at or before index i, 0 when there is none
rposition(buf, x, i) ==
    IF i < 1 THEN 0
    ELSE IF buf[i] = x THEN i
    ELSE rposition(buf, x, i - 1)

is_digit(b) == b >= b_zero /\ b <= b_nine

RECURSIVE digits_value(_, _)
\* the decimal value of the first n bytes of s, all of them digits
digits_value(s, n) ==
    IF n = 0 THEN 0 ELSE digits_value(s, n - 1) * 10 + (s[n] - b_zero)

\* str::parse::<u64>: an optional '+', then one or more decimal digits (the
\* model's tags stay far below u64::MAX, where parse fails on overflow)
parse_u64(s) ==
    LET d == IF Len(s) > 0 /\ s[1] = b_plus THEN Tail(s) ELSE s
    IN  IF Len(d) = 0 \/ \E i \in 1..Len(d) : ~is_digit(d[i]) THEN None
        ELSE Some(digits_value(d, Len(d)))

\* parse_command_tag_rows: the token after the last ' ', parsed as u64
parse_command_tag_rows(tag) ==
    LET sp == rposition(tag, b_space, Len(tag))
    IN  IF sp = 0 THEN None
        ELSE parse_u64(slice(tag, sp + 1, Len(tag)))

RECURSIVE parse_error_response_at(_, _, _)
\* the while loop of parse_error_response from 1-based index i, acc the
\* (severity, code, message) found so far
parse_error_response_at(payload, i, acc) ==
    IF i > Len(payload) \/ payload[i] = NUL THEN acc
    ELSE LET field_type == payload[i]
             z     == position(payload, NUL, i + 1)
             stop  == IF z = 0 THEN Len(payload) + 1 ELSE z
             value == from_utf8_lossy(slice(payload, i + 1, stop - 1))
             next  == IF stop <= Len(payload) THEN stop + 1 ELSE stop
             acc2  == CASE field_type = b_S -> [acc EXCEPT !.severity = value]
                        [] field_type = b_C -> [acc EXCEPT !.code = value]
                        [] field_type = b_M -> [acc EXCEPT !.message = value]
                        [] OTHER -> acc
         IN  parse_error_response_at(payload, next, acc2)

parse_error_response(payload) ==
    parse_error_response_at(payload, 1,
        [severity |-> <<>>, code |-> <<>>, message |-> <<>>])

\* ProtoEvent
QueryStart(sql) == [type |-> "QueryStart", sql |-> sql]
QueryComplete(tag, rows) == [type |-> "QueryComplete", tag |-> tag, rows |-> rows]
QueryError(e) ==
    [type |-> "QueryError", severity |-> e.severity, code |-> e.code,
     message |-> e.message]
ConnectionReady(status) == [type |-> "ConnectionReady", status |-> status]
ParseDetected(sql) == [type |-> "ParseDetected", sql |-> sql]
ConnectionClosed == [type |-> "ConnectionClosed"]
Unknown(tag) == [type |-> "Unknown", tag |-> tag]

\* "<execute portal="
ExecutePortalPrefix ==
    <<60, 101, 120, 101, 99, 117, 116, 101, 32, 112, 111, 114, 116, 97, 108, 61>>

HexDigit(n) == IF n < 10 THEN b_zero + n ELSE 97 + (n - 10)

\* char::escape_debug of one byte of a str: '"' and '\\' get a backslash,
\* \t \r \n their letter, other control characters \u{..}; the rest (the
\* bytes of a multi-byte character among them) stay
escape_debug(b) ==
    CASE b = 34 -> <<92, 34>>
      [] b = 92 -> <<92, 92>>
      [] b = 9  -> <<92, 116>>
      [] b = 13 -> <<92, 114>>
      [] b = 10 -> <<92, 110>>
      [] b < 32 \/ b = 127 ->
            <<92, 117, 123>>
            \o (IF b >= 16 THEN <<HexDigit(b \div 16)>> ELSE <<>>)
            \o <<HexDigit(b % 16), 125>>
      [] OTHER -> <<b>>

RECURSIVE escape_debug_range(_, _, _)
\* the escapes of s[lo..hi], the range halved to keep the evaluation shallow
escape_debug_range(s, lo, hi) ==
    IF lo > hi THEN <<>>
    ELSE IF lo = hi THEN escape_debug(s[lo])
    ELSE escape_debug_range(s, lo, (lo + hi) \div 2)
         \o escape_debug_range(s, (lo + hi) \div 2 + 1, hi)

\* the escapes of the bytes of s from index i on
escape_debug_str(s, i) == escape_debug_range(s, i, Len(s))

\* format!("<execute portal={portal:?}>")
execute_placeholder(portal) ==
    ExecutePortalPrefix \o <<34>> \o escape_debug_str(portal, 1) \o <<34, 62>>

\* mutant of execute_sql: the portal's statement name is taken for its SQL
execute_sql_no_statement_lookup(p, portal) ==
    IF portal \in DOMAIN p.portals THEN p.portals[portal]
    ELSE execute_placeholder(portal)

\* the sql of Execute: self.portals.get(&portal)
\*   .and_then(|stmt| self.statements.get(stmt)).cloned().unwrap_or_else(..)
execute_sql(p, portal) ==
    IF portal \in DOMAIN p.portals /\ p.portals[portal] \in DOMAIN p.statements
    THEN p.statements[p.portals[portal]]
    ELSE execute_placeholder(portal)

\* the Parse arm of parse_message
parse_Parse(p, tag, payload) ==
    LET name_end == position(payload, NUL, 1)
    IN  IF name_end = 0 THEN [parser |-> p, event |-> Unknown(tag)]
        ELSE LET stmt_name == from_utf8_lossy(slice(payload, 1, name_end - 1))
                 rest == slice(payload, name_end + 1, Len(payload))
                 sql  == truncate_sql(unwrap_or_default(extract_cstring(rest)))
             IN  [parser |-> [p EXCEPT !.statements = insert(@, stmt_name, sql)],
                  event  |-> ParseDetected(sql)]

\* the Bind arm of parse_message
parse_Bind(p, tag, payload) ==
    LET portal_end == position(payload, NUL, 1)
    IN  IF portal_end = 0 THEN [parser |-> p, event |-> Unknown(tag)]
        ELSE LET portal == from_utf8_lossy(slice(payload, 1, portal_end - 1))
                 rest == slice(payload, portal_end + 1, Len(payload))
                 stmt == unwrap_or_default(extract_cstring(rest))
             IN  [parser |-> [p EXCEPT !.portals = insert(@, portal, stmt)],
                  event  |-> Unknown(tag)]

\* the Execute arm of parse_message
parse_Execute(p, tag, payload) ==
    LET portal == unwrap_or_default(extract_cstring(payload))
    IN  [parser |-> p, event |-> QueryStart(execute_sql(p, portal))]

\* the Close arm of parse_message
parse_Close(p, tag, payload) ==
    IF Len(payload) = 0 THEN [parser |-> p, event |-> Unknown(tag)]
    ELSE LET close_type == payload[1]
             name == unwrap_or_default(extract_cstring(Tail(payload)))
         IN  [parser |->
                CASE close_type = b_S -> [p EXCEPT !.statements = remove(@, name)]
                  [] close_type = b_P -> [p EXCEPT !.portals = remove(@, name)]
                  [] OTHER -> p,
              event |-> Unknown(tag)]

\* TxStatus of a ReadyForQuery payload
tx_status(payload) ==
    IF Len(payload) = 0 THEN "Idle"
    ELSE CASE payload[1] = b_I -> "Idle"
           [] payload[1] = b_T -> "InTransaction"
           [] payload[1] = b_E -> "Failed"
           [] OTHER -> "Idle"

\* the ReadyForQuery arm of parse_message
parse_ReadyForQuery(p, tag, payload) ==
    [parser |-> IF p.phase = Authenticating THEN [p EXCEPT !.phase = Ready] ELSE p,
     event  |-> ConnectionReady(tx_status(payload))]

\* PostgresParser::parse_message: the parser after the message and its event
parse_message(p, tag, payload, direction) ==
    CASE direction = Frontend /\ tag = b_Q ->
            [parser |-> p,
             event  |-> QueryStart(truncate_sql(unwrap_or_default(extract_cstring(payload))))]
      [] direction = Frontend /\ tag = b_P -> parse_Parse(p, tag, payload)
      [] direction = Frontend /\ tag = b_B -> parse_Bind(p, tag, payload)
      [] direction = Frontend /\ tag = b_E -> parse_Execute(p, tag, payload)
      [] direction = Frontend /\ tag = b_C -> parse_Close(p, tag, payload)
      [] direction = Frontend /\ tag \in {b_S, b_D, b_H} ->
            [parser |-> p, event |-> Unknown(tag)]
      [] direction = Frontend /\ tag = b_X ->
            [parser |-> p, event |-> ConnectionClosed]
      [] direction = Backend /\ tag = b_C ->
            LET tag_str == unwrap_or_default(extract_cstring(payload))
            IN  [parser |-> p,
                 event  |-> QueryComplete(tag_str, parse_command_tag_rows(tag_str))]
      [] direction = Backend /\ tag = b_E ->
            [parser |-> p, event |-> QueryError(parse_error_response(payload))]
      [] direction = Backend /\ tag = b_Z -> parse_ReadyForQuery(p, tag, payload)
      [] OTHER -> [parser |-> p, event |-> Unknown(tag)]

\* Some((event, consumed)) of try_parse, with the parser it leaves
Parsed(p, event, consumed) ==
    [some |-> TRUE, event |-> event, consumed |-> consumed, parser |-> p]

\* None of try_parse: need more data, the parser as it was
NeedMore(p) == [some |-> FALSE, parser |-> p]

\* mutant of try_parse_startup: the phase moves as soon as the version code
\* is in the buffer
try_parse_startup_eager_phase(p, buf) ==
    IF Len(buf) < 8 THEN NeedMore(p)
    ELSE LET length == from_be_bytes(buf[1], buf[2], buf[3], buf[4])
             version == from_be_bytes(buf[5], buf[6], buf[7], buf[8])
             q == IF version = STARTUP_VERSION_3_0
                  THEN [p EXCEPT !.phase = Authenticating] ELSE p
         IN  IF ~(length >= 8 /\ length <= 10000) THEN Parsed(p, Unknown(0), 1)
             ELSE IF Len(buf) < length THEN NeedMore(q)
             ELSE Parsed(q, Unknown(0), length)

\* PostgresParser::try_parse_startup
\* mutant of try_parse_startup: the packet is not waited for
try_parse_startup_without_wait(p, buf) ==
    IF Len(buf) < 8 THEN NeedMore(p)
    ELSE LET length == from_be_bytes(buf[1], buf[2], buf[3], buf[4])
         IN  IF ~(length >= 8 /\ length <= 10000) THEN Parsed(p, Unknown(0), 1)
             ELSE LET version == from_be_bytes(buf[5], buf[6], buf[7], buf[8])
                  IN  IF version = STARTUP_VERSION_3_0
                      THEN Parsed([p EXCEPT !.phase = Authenticating], Unknown(0), length)
                      ELSE Parsed(p, Unknown(0), length)

try_parse_startup(p, buf) ==
    IF Len(buf) < 8 THEN NeedMore(p)
    ELSE LET length == from_be_bytes(buf[1], buf[2], buf[3], buf[4])
         IN  IF ~(length >= 8 /\ length <= 10000) THEN Parsed(p, Unknown(0), 1)
             ELSE IF Len(buf) < length THEN NeedMore(p)
             ELSE LET version == from_be_bytes(buf[5], buf[6], buf[7], buf[8])
                  IN  IF version = STARTUP_VERSION_3_0
                      THEN Parsed([p EXCEPT !.phase = Authenticating], Unknown(0), length)
                      ELSE Parsed(p, Unknown(0), length)

\* mutant of try_parse_regular: the tag byte is not counted as consumed
try_parse_regular_without_tag(p, buf, direction) ==
    IF Len(buf) < 5 THEN NeedMore(p)
    ELSE LET tag == buf[1]
             raw_length == from_be_bytes(buf[2], buf[3], buf[4], buf[5])
             total_len == 1 + raw_length
         IN  IF raw_length < 4 THEN Parsed(p, Unknown(tag), 1)
             ELSE IF Len(buf) < total_len THEN NeedMore(p)
             ELSE LET r == parse_message(p, tag, slice(buf, 6, total_len), direction)
                  IN  Parsed(r.parser, r.event, raw_length)

\* mutant of try_parse_regular: a malformed header is consumed whole
try_parse_regular_skips_header(p, buf, direction) ==
    IF Len(buf) < 5 THEN NeedMore(p)
    ELSE LET tag == buf[1]
             raw_length == from_be_bytes(buf[2], buf[3], buf[4], buf[5])
             total_len == 1 + raw_length
         IN  IF raw_length < 4 THEN Parsed(p, Unknown(tag), 5)
             ELSE IF Len(buf) < total_len THEN NeedMore(p)
             ELSE LET r == parse_message(p, tag, slice(buf, 6, total_len), direction)
                  IN  Parsed(r.parser, r.event, total_len)

\* PostgresParser::try_parse_regular
try_parse_regular(p, buf, direction) ==
    IF Len(buf) < 5 THEN NeedMore(p)
    ELSE LET tag == buf[1]
             raw_length == from_be_bytes(buf[2], buf[3], buf[4], buf[5])
             total_len == 1 + raw_length
         IN  IF raw_length < 4 THEN Parsed(p, Unknown(tag), 1)
             ELSE IF Len(buf) < total_len THEN NeedMore(p)
             ELSE LET r == parse_message(p, tag, slice(buf, 6, total_len), direction)
                  IN  Parsed(r.parser, r.event, total_len)

\* mutant of try_parse: a frontend buffer is read as a startup packet in
\* every phase
try_parse_startup_in_every_phase(p, buf, direction) ==
    IF direction = Frontend
    THEN try_parse_startup(p, buf)
    ELSE try_parse_regular(p, buf, direction)

\* <PostgresParser as ProtocolParser>::try_parse
try_parse(p, buf, direction) ==
    IF p.phase \in {AwaitingStartup, AwaitingStartupAfterSslReject}
    THEN IF direction = Frontend
         THEN try_parse_startup(p, buf)
         ELSE try_parse_regular(p, buf, direction)
    ELSE try_parse_regular(p, buf, direction)

\* mutant of handle_startup_intercept: the phase is left as it was
handle_startup_intercept_keeps_phase(p, buf, direction) ==
    IF direction # Frontend THEN [some |-> FALSE, parser |-> p]
    ELSE IF p.phase \in {AwaitingStartup, AwaitingStartupAfterSslReject}
    THEN IF Len(buf) < 8 THEN [some |-> FALSE, parser |-> p]
         ELSE IF from_be_bytes(buf[5], buf[6], buf[7], buf[8]) = SSL_REQUEST_CODE
              THEN [some |-> TRUE, val |-> <<b_N>>, parser |-> p]
              ELSE [some |-> FALSE, parser |-> p]
    ELSE [some |-> FALSE, parser |-> p]

\* <PostgresParser as ProtocolParser>::handle_startup_intercept: the reply
\* (None, or Some of the bytes to send the client) and the parser it leaves
handle_startup_intercept(p, buf, direction) ==
    IF direction # Frontend THEN [some |-> FALSE, parser |-> p]
    ELSE IF p.phase \in {AwaitingStartup, AwaitingStartupAfterSslReject}
    THEN IF Len(buf) < 8 THEN [some |-> FALSE, parser |-> p]
         ELSE IF from_be_bytes(buf[5], buf[6], buf[7], buf[8]) = SSL_REQUEST_CODE
              THEN [some |-> TRUE, val |-> <<b_N>>,
                    parser |-> [p EXCEPT !.phase = AwaitingStartupAfterSslReject]]
              ELSE [some |-> FALSE, parser |-> p]
    ELSE [some |-> FALSE, parser |-> p]

----------------------------------------------------------------------------
(* The frames of the tests' encoders (postgres.rs, mod tests) *)

make_startup_message(version) == to_be_bytes(8) \o to_be_bytes(version)

make_query_message(sql) ==
    <<b_Q>> \o to_be_bytes(Len(sql) + 1 + 4) \o sql \o <<NUL>>

make_command_complete(tag) ==
    <<b_C>> \o to_be_bytes(Len(tag) + 1 + 4) \o tag \o <<NUL>>

make_ready_for_query(status) == <<b_Z>> \o to_be_bytes(5) \o <<status>>

make_parse_message(stmt_name, sql) ==
    <<b_P>> \o to_be_bytes(Len(stmt_name) + 1 + Len(sql) + 1 + 2 + 4)
    \o stmt_name \o <<NUL>> \o sql \o <<NUL>> \o <<0, 0>>

make_bind_message(portal, stmt_name) ==
    <<b_B>> \o to_be_bytes(Len(portal) + 1 + Len(stmt_name) + 1 + 2 + 2 + 2 + 4)
    \o portal \o <<NUL>> \o stmt_name \o <<NUL>> \o <<0, 0, 0, 0, 0, 0>>

make_execute_message(portal) ==
    <<b_E>> \o to_be_bytes(Len(portal) + 1 + 4 + 4) \o portal \o <<NUL>>
    \o to_be_bytes(0)

make_close_message(close_type, name) ==
    <<b_C>> \o to_be_bytes(1 + Len(name) + 1 + 4) \o <<close_type>> \o name \o <<NUL>>

----------------------------------------------------------------------------
(* src/src/fingerprint.rs.  Offsets are 0-based as in the source; a result
   is Ok(bytes) or Panic (a str slice off a char boundary). *)

Ok(v) == [panic |-> FALSE, val |-> v]
Panic == [panic |-> TRUE]

\* bytes[i], i a 0-based offset
at(s, i) == s[i + 1]

\* &s[from..to], 0-based, to exclusive
range(s, from, to) == SubSeq(s, from + 1, to)

is_ascii_alphabetic(b) == (b >= 65 /\ b <= 90) \/ (b >= 97 /\ b <= 122)
is_ascii_digit(b) == b >= 48 /\ b <= 57
is_ascii_alphanumeric(b) == is_ascii_alphabetic(b) \/ is_ascii_digit(b)
is_ascii_whitespace(b) == b \in {32, 9, 10, 12, 13}

\* String::push(b as char): the UTF-8 encoding of the char U+0000..U+00FF
push_char(b) ==
    IF b < 128 THEN <<b>> ELSE <<192 + (b \div 64), 128 + (b % 64)>>

\* "$S", "$N", " ($...)"
DollarS == <<36, 83>>
DollarN == <<36, 78>>
InListToken == <<32, 40, 36, 46, 46, 46, 41>>

RECURSIVE skip_string(_, _)
\* the inner loop of the string-literal arm: the offset after the literal
skip_string(sql, i) ==
    IF i >= Len(sql) THEN i
    ELSE IF at(sql, i) = 39
         THEN IF i + 1 < Len(sql) /\ at(sql, i + 1) = 39
              THEN skip_string(sql, i + 2)
              ELSE i + 1
         ELSE skip_string(sql, i + 1)

RECURSIVE skip_ident(_, _)
skip_ident(bytes, i) ==
    IF i < Len(bytes) /\ (is_ascii_alphanumeric(at(bytes, i)) \/ at(bytes, i) = 95)
    THEN skip_ident(bytes, i + 1)
    ELSE i

find_dollar_tag_end(bytes, start) ==
    LET i == start + 1
    IN  IF i < Len(bytes) /\ at(bytes, i) = 36 THEN Some(i)
        ELSE LET j == skip_ident(bytes, i)
             IN  IF j < Len(bytes) /\ at(bytes, j) = 36 THEN Some(j) ELSE None

RECURSIVE skip_dollar_body(_, _, _)
\* the closing-tag loop of the dollar-quote arm: Ok(offset after it), or
\* Panic when &sql[i..i + tag.len()] is cut off a char boundary
skip_dollar_body(sql, i, tag) ==
    IF i + Len(tag) > Len(sql) THEN Ok(i)
    ELSE IF ~is_char_boundary(sql, i) \/ ~is_char_boundary(sql, i + Len(tag))
         THEN Panic
    ELSE IF range(sql, i, i + Len(tag)) = tag THEN Ok(i + Len(tag))
    ELSE skip_dollar_body(sql, i + 1, tag)

\* skip_number that consumes one digit of the number only
skip_number_one_digit(bytes, i) == i + 1

RECURSIVE skip_number(_, _)
skip_number(bytes, i) ==
    IF i < Len(bytes) /\ (is_ascii_digit(at(bytes, i)) \/ at(bytes, i) = 46)
    THEN skip_number(bytes, i + 1)
    ELSE i

RECURSIVE fingerprint_scan(_, _, _)
\* the while loop of fingerprint from offset i, result what was pushed so far
fingerprint_scan(sql, i, result) ==
    IF i >= Len(sql) THEN Ok(result)
    ELSE LET b == at(sql, i)
         IN  IF b = 39
             THEN fingerprint_scan(sql, skip_string(sql, i + 1), result \o DollarS)
             ELSE IF b = 36 /\ i + 1 < Len(sql)
                     /\ (at(sql, i + 1) = 36 \/ is_ascii_alphabetic(at(sql, i + 1))
                         \/ at(sql, i + 1) = 95)
             THEN LET tag_end == find_dollar_tag_end(sql, i)
                  IN  IF tag_end.some
                      THEN LET tag == range(sql, i, tag_end.val + 1)
                               r == skip_dollar_body(sql, tag_end.val + 1, tag)
                           IN  IF r.panic THEN Panic
                               ELSE fingerprint_scan(sql, r.val, result \o DollarS)
                      ELSE fingerprint_scan(sql, i + 1, result \o push_char(b))
             ELSE IF is_ascii_digit(b)
             THEN LET prev_is_ident ==
                          i > 0 /\ (is_ascii_alphanumeric(at(sql, i - 1))
                                    \/ at(sql, i - 1) = 95)
                  IN  IF prev_is_ident
                      THEN fingerprint_scan(sql, i + 1, result \o push_char(b))
                      ELSE fingerprint_scan(sql, skip_number(sql, i), result \o DollarN)
             ELSE fingerprint_scan(sql, i + 1, result \o push_char(b))

\* char::to_uppercase of the character starting at s[i] (1-based), for the
\* characters U+0000..U+00FF that push_char produces
upper_char(s, i) ==
    LET b == s[i]
        c == IF i < Len(s) THEN s[i + 1] ELSE 0
    IN  IF b >= 97 /\ b <= 122 THEN <<b - 32>>
        ELSE IF b < 128 THEN <<b>>
        ELSE IF b = 194 /\ c = 181 THEN <<206, 156>>
        ELSE IF b = 195 /\ c = 159 THEN <<83, 83>>
        ELSE IF b = 195 /\ c = 191 THEN <<197, 184>>
        ELSE IF b = 195 /\ c >= 160 /\ c <= 190 /\ c # 183 THEN <<195, c - 32>>
        ELSE <<b, c>>

\* char::to_lowercase, likewise
lower_char(s, i) ==
    LET b == s[i]
        c == IF i < Len(s) THEN s[i + 1] ELSE 0
    IN  IF b >= 65 /\ b <= 90 THEN <<b + 32>>
        ELSE IF b < 128 THEN <<b>>
        ELSE IF b = 195 /\ c >= 128 /\ c <= 158 /\ c # 151 THEN <<195, c + 32>>
        ELSE <<b, c>>

RECURSIVE to_uppercase_at(_, _)
to_uppercase_at(s, i) ==
    IF i > Len(s) THEN <<>>
    ELSE upper_char(s, i) \o to_uppercase_at(s, i + (IF s[i] < 128 THEN 1 ELSE 2))

\* str::to_uppercase
to_uppercase(s) == to_uppercase_at(s, 1)

RECURSIVE to_lowercase_at(_, _)
to_lowercase_at(s, i) ==
    IF i > Len(s) THEN <<>>
    ELSE lower_char(s, i) \o to_lowercase_at(s, i + (IF s[i] < 128 THEN 1 ELSE 2))

\* str::to_lowercase
to_lowercase(s) == to_lowercase_at(s, 1)

RECURSIVE skip_whitespace(_, _)
skip_whitespace(bytes, j) ==
    IF j < Len(bytes) /\ is_ascii_whitespace(at(bytes, j))
    THEN skip_whitespace(bytes, j + 1)
    ELSE j

RECURSIVE in_list_scan(_, _, _)
\* the inner while loop of normalize_in_lists from offset j: where it
\* stops, all_placeholders and has_placeholder
in_list_scan(bytes, j, has) ==
    IF ~(j < Len(bytes) /\ at(bytes, j) # 41)
    THEN [j |-> j, all_placeholders |-> TRUE, has_placeholder |-> has]
    ELSE IF at(bytes, j) = 36
         THEN IF j + 1 < Len(bytes) /\ at(bytes, j + 1) \in {78, 83}
              THEN in_list_scan(bytes, j + 2, TRUE)
              ELSE [j |-> j + 1, all_placeholders |-> FALSE, has_placeholder |-> TRUE]
    ELSE IF at(bytes, j) \in {44, 32} THEN in_list_scan(bytes, j + 1, has)
    ELSE [j |-> j, all_placeholders |-> FALSE, has_placeholder |-> has]

\* the offset after the collapsed IN list that starts at offset i, or None
in_list_end(bytes, i) ==
    LET j == skip_whitespace(bytes, i + 2)
    IN  IF j < Len(bytes) /\ at(bytes, j) = 40
        THEN LET r == in_list_scan(bytes, j + 1, FALSE)
             IN  IF r.j < Len(bytes) /\ at(bytes, r.j) = 41
                    /\ r.all_placeholders /\ r.has_placeholder
                 THEN Some(r.j + 1)
                 ELSE None
        ELSE None

RECURSIVE normalize_scan(_, _, _, _)
\* the while loop of normalize_in_lists
normalize_scan(sql, upper, i, result) ==
    IF i >= Len(sql) THEN Ok(result)
    ELSE IF i + 2 < Len(sql)
            /\ (~is_char_boundary(upper, i) \/ ~is_char_boundary(upper, i + 2))
         THEN Panic
    ELSE IF i + 2 < Len(sql) /\ range(upper, i, i + 2) = <<73, 78>>
            /\ (i = 0 \/ ~is_ascii_alphanumeric(at(sql, i - 1)))
            /\ in_list_end(sql, i).some
         THEN normalize_scan(sql, upper, in_list_end(sql, i).val,
                             result \o range(sql, i, i + 2) \o InListToken)
    ELSE normalize_scan(sql, upper, i + 1, result \o push_char(at(sql, i)))

normalize_in_lists(sql) == normalize_scan(sql, to_uppercase(sql), 0, <<>>)

\* fingerprint(sql): Ok(the fingerprint), or Panic
fingerprint(sql) ==
    LET first == fingerprint_scan(sql, 0, <<>>)
    IN  IF first.panic THEN Panic
        ELSE LET second == normalize_in_lists(first.val)
             IN  IF second.panic THEN Panic ELSE Ok(to_lowercase(second.val))

----------------------------------------------------------------------------
(* src/src/stats.rs.  An Instant and a Duration are whole milliseconds. *)

\* Duration::MAX, the min_duration of a fresh aggregate
DURATION_MAX == 2147483647

\* "ERROR", "FATAL"
SeverityError == <<69, 82, 82, 79, 82>>
SeverityFatal == <<70, 65, 84, 65, 76>>

\* "Extended query protocol: "
WarningPrefix ==
    <<69, 120, 116, 101, 110, 100, 101, 100, 32, 113, 117, 101, 114, 121, 32,
      112, 114, 111, 116, 111, 99, 111, 108, 58, 32>>

\* DisplayEventKind (the wall-clock time of a DisplayEvent is left out)
DisplayQuery(sql, duration, rows) ==
    [type |-> "Query", sql |-> sql, duration |-> duration, rows |-> rows]
DisplayError(sql, duration, code, message) ==
    [type |-> "Error", sql |-> sql, duration |-> duration, code |-> code,
     message |-> message]
DisplayConnectionOpened == [type |-> "ConnectionOpened"]
DisplayConnectionClosed == [type |-> "ConnectionClosed"]
DisplayWarning(message) == [type |-> "Warning", message |-> message]

DisplayEvent(conn_id, kind) == [conn_id |-> conn_id, kind |-> kind]

\* what a call of the collector leaves: the collector and what it returned
Outcome(st, returned) == [panic |-> FALSE, stats |-> st, display |-> returned]

\* StatsCollector::new
StatsCollector_new ==
    [connections |-> EmptyMap,
     fingerprints |-> EmptyMap,
     latency_buckets |-> <<0, 0, 0, 0, 0, 0>>,
     total_queries |-> 0,
     total_errors |-> 0,
     active_connections |-> 0,
     qps_window |-> <<>>,
     first_query_at |-> None,
     last_query_at |-> None]

\* ConnState { pending_queries: VecDeque::new(), in_transaction: false }
ConnState_new == [pending_queries |-> <<>>, in_transaction |-> FALSE]

\* u64::saturating_sub
saturating_sub(a, b) == IF a >= b THEN a - b ELSE 0

\* stats.rs truncate(s, max)
truncate(str, max) ==
    IF Len(str) <= max THEN str
    ELSE slice(str, 1, last_char_boundary(str, max)) \o Ellipsis

\* mutant of reset: the error counter is kept
reset_keeps_errors(st) ==
    [st EXCEPT !.fingerprints = EmptyMap,
               !.latency_buckets = <<0, 0, 0, 0, 0, 0>>,
               !.total_queries = 0,
               !.qps_window = <<>>,
               !.first_query_at = None,
               !.last_query_at = None]

\* StatsCollector::reset
reset(st) ==
    [st EXCEPT !.fingerprints = EmptyMap,
               !.latency_buckets = <<0, 0, 0, 0, 0, 0>>,
               !.total_queries = 0,
               !.total_errors = 0,
               !.qps_window = <<>>,
               !.first_query_at = None,
               !.last_query_at = None]

\* StatsCollector::ensure_conn
ensure_conn(st, conn_id) ==
    IF conn_id \in DOMAIN st.connections THEN st
    ELSE [st EXCEPT !.connections = insert(@, conn_id, ConnState_new)]

\* mutant of latency_bucket: the upper end of a range belongs to it
latency_bucket_inclusive(duration) ==
    IF duration <= 1 THEN 1
    ELSE IF duration <= 5 THEN 2
    ELSE IF duration <= 10 THEN 3
    ELSE IF duration <= 50 THEN 4
    ELSE IF duration <= 100 THEN 5
    ELSE 6

\* the bucket of record_latency, 1-based
latency_bucket(duration) ==
    IF duration < 1 THEN 1
    ELSE IF duration < 5 THEN 2
    ELSE IF duration < 10 THEN 3
    ELSE IF duration < 50 THEN 4
    ELSE IF duration < 100 THEN 5
    ELSE 6

\* StatsCollector::record_latency
record_latency(st, duration) ==
    [st EXCEPT !.latency_buckets[latency_bucket(duration)] = @ + 1]

Min(a, b) == IF a <= b THEN a ELSE b
Max(a, b) == IF a >= b THEN a ELSE b

\* mutant of record_fingerprint: max_duration is not updated
record_fingerprint_keeps_max(st, fp, duration) ==
    LET agg == IF fp \in DOMAIN st.fingerprints THEN st.fingerprints[fp]
               ELSE [fingerprint |-> fp, count |-> 0, total_duration |-> 0,
                     min_duration |-> DURATION_MAX, max_duration |-> 0]
    IN  [st EXCEPT !.fingerprints =
            insert(@, fp,
                   [fingerprint |-> agg.fingerprint,
                    count |-> agg.count + 1,
                    total_duration |-> agg.total_duration + duration,
                    min_duration |-> Min(agg.min_duration, duration),
                    max_duration |-> agg.max_duration])]

\* mutant of record_fingerprint: a new aggregate replaces the one of the map
record_fingerprint_replaces(st, fp, duration) ==
    [st EXCEPT !.fingerprints =
        insert(@, fp,
               [fingerprint |-> fp,
                count |-> 1,
                total_duration |-> duration,
                min_duration |-> duration,
                max_duration |-> duration])]

\* StatsCollector::record_fingerprint, fp the fingerprint of the sql
record_fingerprint(st, fp, duration) ==
    LET agg == IF fp \in DOMAIN st.fingerprints THEN st.fingerprints[fp]
               ELSE [fingerprint |-> fp, count |-> 0, total_duration |-> 0,
                     min_duration |-> DURATION_MAX, max_duration |-> 0]
    IN  [st EXCEPT !.fingerprints =
            insert(@, fp,
                   [fingerprint |-> agg.fingerprint,
                    count |-> agg.count + 1,
                    total_duration |-> agg.total_duration + duration,
                    min_duration |-> Min(agg.min_duration, duration),
                    max_duration |-> Max(agg.max_duration, duration)])]

\* mutant of pop_front: the newest entry goes
pop_front_takes_back(q) == SubSeq(q, 1, Len(q) - 1)

\* VecDeque::pop_front: the queue that stays
pop_front(q) == Tail(q)

\* the QueryStart arm of process_event
on_QueryStart(st, conn_id, event, now) ==
    LET st1 == ensure_conn(st, conn_id)
    IN  Outcome([st1 EXCEPT !.connections[conn_id].pending_queries =
                    Append(@, [sql |-> event.sql, started_at |-> now])],
                None)

\* mutant of on_ParseDetected: the prepared SQL is queued as a pending query
on_ParseDetected_pushes(st, conn_id, event, now) ==
    LET st1 == ensure_conn(st, conn_id)
    IN  Outcome([st1 EXCEPT !.connections[conn_id].pending_queries =
                    Append(@, [sql |-> event.sql, started_at |-> now])],
                Some(DisplayEvent(conn_id,
                     DisplayWarning(WarningPrefix \o truncate(event.sql, 80)))))

\* the ParseDetected arm of process_event
on_ParseDetected(st, conn_id, event, now) ==
    Outcome(st, Some(DisplayEvent(conn_id,
                DisplayWarning(WarningPrefix \o truncate(event.sql, 80)))))

\* the QueryComplete arm of process_event
on_QueryComplete(st, conn_id, event, now) ==
    IF conn_id \notin DOMAIN st.connections THEN Outcome(st, None)
    ELSE IF st.connections[conn_id].pending_queries = <<>> THEN Outcome(st, None)
    ELSE LET pending == Head(st.connections[conn_id].pending_queries)
             duration == now - pending.started_at
             st1 == [st EXCEPT
                       !.connections[conn_id].pending_queries = pop_front(@),
                       !.total_queries = @ + 1,
                       !.first_query_at = IF @.some THEN @ ELSE Some(now),
                       !.last_query_at = Some(now)]
             st2 == record_latency(st1, duration)
             fp  == fingerprint(pending.sql)
         IN  IF fp.panic THEN [panic |-> TRUE]
             ELSE Outcome([record_fingerprint(st2, fp.val, duration)
                              EXCEPT !.qps_window = Append(@, now)],
                          Some(DisplayEvent(conn_id,
                               DisplayQuery(pending.sql, duration, event.rows))))

\* mutant of on_QueryError: the severity is not looked at
on_QueryError_every_severity(st, conn_id, event, now) ==
    LET has == conn_id \in DOMAIN st.connections
               /\ st.connections[conn_id].pending_queries # <<>>
        p   == Head(st.connections[conn_id].pending_queries)
        st1 == [st EXCEPT !.total_errors = @ + 1]
        st2 == IF has
               THEN [st1 EXCEPT !.connections[conn_id].pending_queries = pop_front(@)]
               ELSE st1
        sql == IF has THEN Some(p.sql) ELSE None
        duration == IF has THEN Some(now - p.started_at) ELSE None
    IN  Outcome(st2, Some(DisplayEvent(conn_id,
                 DisplayError(sql, duration, event.code, event.message))))

\* the QueryError arm of process_event
on_QueryError(st, conn_id, event, now) ==
    LET has == conn_id \in DOMAIN st.connections
               /\ st.connections[conn_id].pending_queries # <<>>
        p   == Head(st.connections[conn_id].pending_queries)
        st1 == [st EXCEPT !.total_errors = @ + 1]
        st2 == IF has
               THEN [st1 EXCEPT !.connections[conn_id].pending_queries = pop_front(@)]
               ELSE st1
        sql == IF has THEN Some(p.sql) ELSE None
        duration == IF has THEN Some(now - p.started_at) ELSE None
    IN  IF event.severity = SeverityError \/ event.severity = SeverityFatal
        THEN Outcome(st2, Some(DisplayEvent(conn_id,
                 DisplayError(sql, duration, event.code, event.message))))
        ELSE Outcome(st2, None)

\* mutant of on_ConnectionReady: the pending queries are not cleared
on_ConnectionReady_keeps_pending(st, conn_id, event, now) ==
    IF conn_id \notin DOMAIN st.connections THEN Outcome(st, None)
    ELSE Outcome([st EXCEPT
                    !.connections[conn_id].in_transaction =
                        (event.status = "InTransaction")],
                 None)

\* the ConnectionReady arm of process_event
on_ConnectionReady(st, conn_id, event, now) ==
    IF conn_id \notin DOMAIN st.connections THEN Outcome(st, None)
    ELSE Outcome([st EXCEPT
                    !.connections[conn_id].in_transaction =
                        (event.status = "InTransaction"),
                    !.connections[conn_id].pending_queries = <<>>],
                 None)

\* the ConnectionClosed arm of process_event
on_ConnectionClosed(st, conn_id, event, now) ==
    Outcome([st EXCEPT !.connections = remove(@, conn_id),
                       !.active_connections = saturating_sub(@, 1)],
            Some(DisplayEvent(conn_id, DisplayConnectionClosed)))

\* StatsCollector::process_event at Instant now
process_event(st, conn_id, event, now) ==
    CASE event.type = "QueryStart" -> on_QueryStart(st, conn_id, event, now)
      [] event.type = "ParseDetected" -> on_ParseDetected(st, conn_id, event, now)
      [] event.type = "QueryComplete" -> on_QueryComplete(st, conn_id, event, now)
      [] event.type = "QueryError" -> on_QueryError(st, conn_id, event, now)
      [] event.type = "ConnectionReady" -> on_ConnectionReady(st, conn_id, event, now)
      [] event.type = "ConnectionClosed" -> on_ConnectionClosed(st, conn_id, event, now)
      [] event.type = "Unknown" -> Outcome(st, None)

\* StatsCollector::connection_opened
connection_opened(st, conn_id) ==
    Outcome([st EXCEPT !.active_connections = @ + 1,
                       !.connections = insert(@, conn_id, ConnState_new)],
            Some(DisplayEvent(conn_id, DisplayConnectionOpened)))

\* StatsCollector::connection_dropped
connection_dropped(st, conn_id) ==
    IF conn_id \in DOMAIN st.connections
    THEN Outcome([st EXCEPT !.connections = remove(@, conn_id),
                            !.active_connections = saturating_sub(@, 1)],
                 Some(DisplayEvent(conn_id, DisplayConnectionClosed)))
    ELSE Outcome(st, None)

RECURSIVE drop_expired(_, _)
\* the while loop of qps: pop the instants at or before cutoff from the front
drop_expired(window, cutoff) ==
    IF window # <<>> /\ Head(window) <= cutoff
    THEN drop_expired(Tail(window), cutoff)
    ELSE window

\* StatsCollector::qps at Instant now: the collector it leaves; the value
\* returned is the length of its qps_window
qps(st, now) == [st EXCEPT !.qps_window = drop_expired(@, now - 1000)]

\* where insertion sort puts x in the sorted sequence sorted: after the
\* elements whose total_duration is not smaller
sort_insert(sorted, x) ==
    LET k == Cardinality({ i \in 1..Len(sorted) : sorted[i].total_duration >= x.total_duration })
    IN  SubSeq(sorted, 1, k) \o <<x>> \o SubSeq(sorted, k + 1, Len(sorted))

RECURSIVE sort_unstable_by(_, _)
\* queries.sort_unstable_by(|a, b| b.total_duration.cmp(&a.total_duration)) on
\* the first k elements of queries: the insertion sort the standard library
\* runs on a slice of up to 20 elements
sort_unstable_by(queries, k) ==
    IF k = 0 THEN <<>> ELSE sort_insert(sort_unstable_by(queries, k - 1), queries[k])

\* Vec::truncate
vec_truncate(v, n) == SubSeq(v, 1, Min(n, Len(v)))

\* StatsCollector::top_queries, iteration the keys in the order in which
\* fingerprints.values() visits the map
top_queries(st, iteration, n) ==
    LET queries == [i \in 1..Len(iteration) |-> st.fingerprints[iteration[i]]]
    IN  vec_truncate(sort_unstable_by(queries, Len(queries)), n)

----------------------------------------------------------------------------
(* The bounds of the models *)

\* the connection ids of the model (CONN_COUNTER starts at 1)
MaxConn == 2
ConnIds == 1..MaxConn

\* the pending queries a connection may hold at once
MaxPending == 2

\* the completed queries and the errors counted between two resets
MaxQueries == 1
MaxErrors == 1

\* scenario 4 of the spec on one connection: QueryStart, QueryStart,
\* QueryError(ERROR), ConnectionReady, and then a QueryComplete
Scenario4 ==
    <<"QueryStart", "QueryStart", "QueryError", "ConnectionReady", "QueryComplete">>

StraceStart == [on |-> TRUE, n |-> 0, displays |-> <<>>]

----------------------------------------------------------------------------
(* The relay of one connection (proxy.rs): its channels and its idle state *)

\* mpsc::channel::<Vec<u8>>(4), mpsc::channel::<Bytes>(256) of
\* handle_connection and mpsc::channel::<ProxyMessage>(1024) of main
INTERCEPT_CAPACITY == 4
CLIENT_WRITE_CAPACITY == 256
EVENTS_CAPACITY == 1024

\* the first value of CONN_COUNTER
CONN_ID == 1

\* enum ProxyMessage
ProxyEvent(conn_id, event) == [type |-> "Event", conn_id |-> conn_id, event |-> event]
ProxyConnectionOpened(conn_id) == [type |-> "ConnectionOpened", conn_id |-> conn_id]
ProxyConnectionClosed(conn_id) == [type |-> "ConnectionClosed", conn_id |-> conn_id]

\* no connection accepted
RelayIdle ==
    /\ clientSock = [out |-> <<>>, ssl |-> {}, cuts |-> {}, rd |-> 0, wr |-> <<>>]
    /\ upstreamSock = [wr |-> <<>>, idx |-> <<>>, srvpos |-> 0, srvphase |-> "startup",
                       out |-> <<>>, cuts |-> {}, rd |-> 0, eof |-> FALSE]
    /\ frontend = [pc |-> "unspawned", n |-> 0, parse_buf |-> <<>>, off |-> 0,
                   intercept_response |-> None, events |-> <<>>]
    /\ backend = [pc |-> "unspawned", parse_buf |-> <<>>, events |-> <<>>, chunks |-> 0]
    /\ clientWriter = [pc |-> "unspawned", data |-> [src |-> 0, bytes |-> <<>>]]
    /\ interceptChan = <<>>
    /\ clientWriteChan = <<>>
    /\ eventsChan = [queue |-> <<>>, backlog |-> 0]
    /\ connTask = [pc |-> "idle", aborted |-> FALSE]

----------------------------------------------------------------------------
(* SpecParser: one parser fed whole frames, as the tests of postgres.rs do *)

\* "s1" and the unnamed statement
StmtNames == { <<115, 49>>, <<>> }

\* "p1", "p2"
PortalNames == { <<112, 49>>, <<112, 50>> }

\* "INSERT 1", "SELECT 2"
SqlA == <<73, 78, 83, 69, 82, 84, 32, 49>>
SqlB == <<83, 69, 76, 69, 67, 84, 32, 50>>
Sqls == { SqlA, SqlB }

\* the extended-protocol messages a client sends
FrontendOps ==
    [kind : {"Parse"}, name : StmtNames, sql : Sqls]
    \cup [kind : {"Bind"}, portal : PortalNames, stmt : StmtNames]
    \cup [kind : {"Execute"}, portal : PortalNames]
    \cup [kind : {"Close"}, ctype : {b_S}, name : StmtNames]
    \cup [kind : {"Close"}, ctype : {b_P}, name : PortalNames]

\* the bytes of a message
Encode(op) ==
    CASE op.kind = "Parse"   -> make_parse_message(op.name, op.sql)
      [] op.kind = "Bind"    -> make_bind_message(op.portal, op.stmt)
      [] op.kind = "Execute" -> make_execute_message(op.portal)
      [] op.kind = "Close"   -> make_close_message(op.ctype, op.name)

\* scenario 3 of the spec: Parse s1, Bind p1 -> s1, Execute p1, Bind p2 -> s1,
\* Execute p2 (test_extended_pipeline)
Scenario3 ==
    << [kind |-> "Parse", name |-> <<115, 49>>, sql |-> SqlA],
       [kind |-> "Bind", portal |-> <<112, 49>>, stmt |-> <<115, 49>>],
       [kind |-> "Execute", portal |-> <<112, 49>>],
       [kind |-> "Bind", portal |-> <<112, 50>>, stmt |-> <<115, 49>>],
       [kind |-> "Execute", portal |-> <<112, 50>>] >>

IsPrefix(a, b) == Len(a) <= Len(b) /\ a = SubSeq(b, 1, Len(a))

NoTrace == [on |-> FALSE, ops |-> <<>>, events |-> <<>>]

\* what try_parse returned, without the parser
Returned(r) ==
    IF r.some THEN [some |-> TRUE, event |-> r.event, consumed |-> r.consumed]
    ELSE [some |-> FALSE]

\* the observers after a frontend message
RefStmtsAfter(op) ==
    CASE op.kind = "Parse" -> insert(refStmts, op.name, op.sql)
      [] op.kind = "Close" /\ op.ctype = b_S -> remove(refStmts, op.name)
      [] OTHER -> refStmts

RefPortalsAfter(op) ==
    CASE op.kind = "Bind" -> insert(refPortals, op.portal, op.stmt)
      [] op.kind = "Close" /\ op.ctype = b_P -> remove(refPortals, op.name)
      [] OTHER -> refPortals

BindSqlAfter(op) ==
    CASE op.kind = "Bind" ->
            IF op.stmt \in DOMAIN refStmts
            THEN insert(bindSql, op.portal, refStmts[op.stmt])
            ELSE remove(bindSql, op.portal)
      [] op.kind = "Close" /\ op.ctype = b_P -> remove(bindSql, op.name)
      [] op.kind = "Close" /\ op.ctype = b_S ->
            [q \in {x \in DOMAIN bindSql : refPortals[x] # op.name} |-> bindSql[q]]
      [] OTHER -> bindSql

TraceAfter(op, r) ==
    LET ops == Append(trace.ops, op)
    IN  IF trace.on /\ IsPrefix(ops, Scenario3)
        THEN [on |-> TRUE, ops |-> ops, events |-> Append(trace.events, r.event)]
        ELSE NoTrace

\* top_queries was not called
NoTop == [iteration |-> <<>>, called |-> FALSE, n |-> 0, result |-> <<>>]

\* the correlator before any call
StatsIdle ==
    /\ stats = StatsCollector_new
    /\ clock = 0
    /\ life = [c \in ConnIds |-> "new"]
    /\ display = None
    /\ strace = StraceStart
    /\ top = NoTop
    /\ closed = [c \in ConnIds |-> [displays |-> 0, decrements |-> 0]]

\* the parser before any frame
ParserIdle ==
    /\ parser = PostgresParser_new
    /\ lastOp = [kind |-> "None"]
    /\ lastEvent = None
    /\ refStmts = EmptyMap
    /\ refPortals = EmptyMap
    /\ bindSql = EmptyMap
    /\ trace = [on |-> TRUE, ops |-> <<>>, events |-> <<>>]

InitParser ==
    /\ StatsIdle
    /\ ParserIdle
    /\ RelayIdle

\* the parser after try_parse returned r, and what it returned
Fed(r) ==
    /\ parser' = r.parser
    /\ lastEvent' = Returned(r)

\* the client's StartupMessage v3.0 (test_startup_message)
FeedStartup ==
    /\ parser.phase \in {AwaitingStartup, AwaitingStartupAfterSslReject}
    /\ Fed(try_parse(parser, make_startup_message(STARTUP_VERSION_3_0), Frontend))
    /\ lastOp' = [kind |-> "Startup"]
    /\ UNCHANGED <<refStmts, refPortals, bindSql, trace, svars, rvars>>

\* the server's ReadyForQuery (test_ready_for_query)
FeedReadyForQuery ==
    /\ parser.phase \in {Authenticating, Ready}
    /\ Fed(try_parse(parser, make_ready_for_query(b_I), Backend))
    /\ lastOp' = [kind |-> "ReadyForQuery"]
    /\ UNCHANGED <<refStmts, refPortals, bindSql, trace, svars, rvars>>

\* the parser and the reference bookkeeping after try_parse returned r on op
FedFrontend(op, r) ==
    /\ Fed(r)
    /\ lastOp' = op
    /\ refStmts' = RefStmtsAfter(op)
    /\ refPortals' = RefPortalsAfter(op)
    /\ bindSql' = BindSqlAfter(op)
    /\ trace' = TraceAfter(op, r)

\* one extended-protocol message of the client
FeedFrontend ==
    /\ parser.phase \in {Authenticating, Ready}
    /\ \E op \in FrontendOps : FedFrontend(op, try_parse(parser, Encode(op), Frontend))
    /\ UNCHANGED <<svars, rvars>>

NextParser == FeedStartup \/ FeedReadyForQuery \/ FeedFrontend

SpecParser == InitParser /\ [][NextParser]_vars

\* a placeholder: it starts with <execute portal=
IsPlaceholder(sql) ==
    Len(sql) >= Len(ExecutePortalPrefix)
    /\ SubSeq(sql, 1, Len(ExecutePortalPrefix)) = ExecutePortalPrefix

\* the QueryStart events of a sequence of events
RECURSIVE QueryStarts(_)
QueryStarts(es) ==
    IF es = <<>> THEN <<>>
    ELSE (IF Head(es).type = "QueryStart" THEN <<Head(es)>> ELSE <<>>)
         \o QueryStarts(Tail(es))

\* C9: the QueryStart of Execute(p) carries the SQL of the last Parse of the
\* statement name that the last Bind of p names, when p is bound and that
\* statement is stored, and a placeholder otherwise; scenario 3 yields two
\* successive QueryStart events with the SQL of s1.
C9_ExecuteResolvesPortal ==
    /\ lastOp.kind = "Execute" =>
         /\ lastEvent.some
         /\ lastEvent.event.type = "QueryStart"
         /\ IF lastOp.portal \in DOMAIN refPortals
               /\ refPortals[lastOp.portal] \in DOMAIN refStmts
            THEN lastEvent.event.sql = refStmts[refPortals[lastOp.portal]]
            ELSE IsPlaceholder(lastEvent.event.sql)
    /\ trace.ops = Scenario3 =>
         trace.events = << ParseDetected(SqlA), Unknown(b_B), QueryStart(SqlA),
                           Unknown(b_B), QueryStart(SqlA) >>

\* scenario 3 has been fed to the parser
C9_Witness == trace.ops = Scenario3

\* C10: the QueryStart of Execute(p) carries the SQL that the statement bound
\* to p had when p was bound, also when that statement name was parsed again
\* in between.
C10_ExecuteCarriesSqlAtBind ==
    (lastOp.kind = "Execute" /\ lastOp.portal \in DOMAIN bindSql) =>
        /\ lastEvent.some
        /\ lastEvent.event = QueryStart(bindSql[lastOp.portal])

\* the maps before and after hold the same entries under every name but key
OnlyAt(before, after, key) ==
    \A k \in (DOMAIN before \cup DOMAIN after) \ {key} :
        /\ k \in DOMAIN before
        /\ k \in DOMAIN after
        /\ before[k] = after[k]

\* C32: Close of statement s removes the statement s and nothing else, Close
\* of portal p removes the portal p and nothing else, Parse and Bind with a
\* used name replace the entry of that name and leave the others; an Execute
\* of a portal that was closed, or whose statement was closed, and not
\* defined again gets a placeholder.
C32_CloseRemovesOnlyItsEntry ==
    [][ /\ (lastOp'.kind = "Close" /\ lastOp'.ctype = b_S) =>
              /\ lastOp'.name \notin DOMAIN parser'.statements
              /\ OnlyAt(parser.statements, parser'.statements, lastOp'.name)
              /\ parser'.portals = parser.portals
        /\ (lastOp'.kind = "Close" /\ lastOp'.ctype = b_P) =>
              /\ lastOp'.name \notin DOMAIN parser'.portals
              /\ OnlyAt(parser.portals, parser'.portals, lastOp'.name)
              /\ parser'.statements = parser.statements
        /\ lastOp'.kind = "Parse" =>
              /\ lastOp'.name \in DOMAIN parser'.statements
              /\ parser'.statements[lastOp'.name] = lastOp'.sql
              /\ OnlyAt(parser.statements, parser'.statements, lastOp'.name)
              /\ parser'.portals = parser.portals
        /\ lastOp'.kind = "Bind" =>
              /\ lastOp'.portal \in DOMAIN parser'.portals
              /\ parser'.portals[lastOp'.portal] = lastOp'.stmt
              /\ OnlyAt(parser.portals, parser'.portals, lastOp'.portal)
              /\ parser'.statements = parser.statements
        /\ (/\ lastOp'.kind = "Execute"
            /\ \/ lastOp'.portal \notin DOMAIN refPortals
               \/ refPortals[lastOp'.portal] \notin DOMAIN refStmts) =>
              /\ lastEvent'.some
              /\ lastEvent'.event.type = "QueryStart"
              /\ IsPlaceholder(lastEvent'.event.sql) ]_vars

\* the statement s1 was closed: the unnamed statement and the portal bound
\* to s1 are still there
C32_Witness ==
    /\ lastOp = [kind |-> "Close", ctype |-> b_S, name |-> <<115, 49>>]
    /\ <<115, 49>> \notin DOMAIN parser.statements
    /\ <<>> \in DOMAIN parser.statements
    /\ <<112, 49>> \in DOMAIN parser.portals
    /\ parser.portals[<<112, 49>>] = <<115, 49>>
    /\ <<115, 49>> \notin DOMAIN refStmts

----------------------------------------------------------------------------
(* SpecFrames: try_parse called on one frame of an encoder, or on a prefix
   of it, the SQL and the names up to just over MAX_SQL_LEN bytes *)

\* the bytes of "a".repeat(n)
repeat_a(n) == [i \in 1..n |-> 97]

\* "a".repeat(MAX_SQL_LEN - 1) + "\u{1F600}" (test_truncate_sql_utf8_boundary)
SqlEmoji == repeat_a(MAX_SQL_LEN - 1) \o <<240, 159, 152, 128>>

\* a name of MAX_SQL_LEN + 1 bytes
LongName == repeat_a(MAX_SQL_LEN + 1)

\* "u", "x": the parameter of a StartupMessage
StartupParams == <<117, NUL, 120, NUL, NUL>>

\* a StartupMessage with parameters
make_startup_with_params(version, params) ==
    to_be_bytes(8 + Len(params)) \o to_be_bytes(version) \o params

\* the frames fed to the parser
\* the command tags a server sends: "SELECT 2", "SELECT 5", "INSERT 0 3",
\* "BEGIN", "COMMIT", and tags no PostgreSQL server sends: "42", "SELECT<TAB>5",
\* "SELECT 5 ", "SELECT 5x", "SELECT +5", ""
CommandTags ==
    { SqlB,
      <<83, 69, 76, 69, 67, 84, 32, 53>>,
      <<73, 78, 83, 69, 82, 84, 32, 48, 32, 51>>,
      <<66, 69, 71, 73, 78>>,
      <<67, 79, 77, 77, 73, 84>>,
      <<52, 50>>,
      <<83, 69, 76, 69, 67, 84, 9, 53>>,
      <<83, 69, 76, 69, 67, 84, 32, 53, 32>>,
      <<83, 69, 76, 69, 67, 84, 32, 53, 120>>,
      <<83, 69, 76, 69, 67, 84, 32, 43, 53>>,
      <<>> }

FrameOps ==
    [kind : {"Startup"}, version : {SSL_REQUEST_CODE, STARTUP_VERSION_3_0}]
    \cup [kind : {"StartupParams"}, version : {STARTUP_VERSION_3_0}]
    \cup [kind : {"Query"}, sql : {SqlA, SqlEmoji}]
    \cup [kind : {"Parse"}, name : {<<115, 49>>}, sql : {SqlEmoji}]
    \cup [kind : {"Bind"}, portal : {<<112, 49>>}, stmt : {<<115, 49>>}]
    \cup [kind : {"Execute"}, portal : {<<112, 49>>, LongName}]
    \cup [kind : {"CommandComplete"}, tag : CommandTags]
    \cup [kind : {"ReadyForQuery"}, status : {b_I}]

\* the direction a frame travels in
FrameDirection(op) ==
    IF op.kind \in {"CommandComplete", "ReadyForQuery"} THEN Backend ELSE Frontend

\* a frame without a tag byte
IsStartup(op) == op.kind \in {"Startup", "StartupParams"}

\* the bytes of a frame
EncodeFrame(op) ==
    CASE op.kind = "Startup" -> make_startup_message(op.version)
      [] op.kind = "StartupParams" -> make_startup_with_params(op.version, StartupParams)
      [] op.kind = "Query" -> make_query_message(op.sql)
      [] op.kind = "CommandComplete" -> make_command_complete(op.tag)
      [] op.kind = "ReadyForQuery" -> make_ready_for_query(op.status)
      [] OTHER -> Encode(op)

\* the size a frame declares: its length field, and the tag byte before it
FrameSize(op, bytes) ==
    IF IsStartup(op) THEN from_be_bytes(bytes[1], bytes[2], bytes[3], bytes[4])
    ELSE 1 + from_be_bytes(bytes[2], bytes[3], bytes[4], bytes[5])

\* the prefixes of a frame the model feeds: so many of its first bytes, all
\* but its last byte, and all of it
MaxPrefix == 9
PrefixLens(bytes) ==
    { k \in 0..MaxPrefix : k <= Len(bytes) } \cup { Len(bytes) - 1, Len(bytes) }

\* the calls of try_parse the model makes: a frame, its bytes and how many of
\* them are in the buffer
FrameFeeds ==
    UNION { [op : {op}, bytes : {EncodeFrame(op)}, k : PrefixLens(EncodeFrame(op))]
              : op \in FrameOps }

\* a parser before the StartupMessage: new, or after an SSLRequest was refused
InitFrames ==
    /\ StatsIdle
    /\ RelayIdle
    /\ \E phase \in {AwaitingStartup, AwaitingStartupAfterSslReject} :
         parser = [PostgresParser_new EXCEPT !.phase = phase]
    /\ lastOp = [kind |-> "None"]
    /\ lastEvent = None
    /\ refStmts = EmptyMap
    /\ refPortals = EmptyMap
    /\ bindSql = EmptyMap
    /\ trace = NoTrace

\* the parser after try_parse returned r on the call f; kept tells whether
\* the call left the phase, the statements and the portals as they were
FedFrame(f, r) ==
    /\ parser' = r.parser
    /\ lastEvent' = Returned(r)
    /\ lastOp' = [kind |-> "Frame", op |-> f.op, size |-> Len(f.bytes), k |-> f.k,
                  declared |-> FrameSize(f.op, f.bytes), phase |-> parser.phase,
                  kept |-> (r.parser = parser)]

\* try_parse on the first k bytes of a frame, in the phases the frame occurs in
FeedFrame(f) ==
    /\ IF IsStartup(f.op)
       THEN parser.phase \in {AwaitingStartup, AwaitingStartupAfterSslReject}
       ELSE FrameDirection(f.op) = Backend \/ parser.phase \in {Authenticating, Ready}
    /\ FedFrame(f, try_parse(parser, SubSeq(f.bytes, 1, f.k), FrameDirection(f.op)))
    /\ UNCHANGED <<refStmts, refPortals, bindSql, trace, svars, rvars>>

NextFrames == \E f \in FrameFeeds : FeedFrame(f)

SpecFrames == InitFrames /\ [][NextFrames]_vars

----------------------------------------------------------------------------
(* SpecPhase: the two hooks of the parser called in any order, in either    *)
(* direction, on whole and partial packets                                  *)

\* packets no encoder makes: regular messages with the length fields 3, 0
\* and 4, the second followed by a byte, and startup packets with the length
\* fields 7, 10001, 0 and 10000
RawPackets ==
    { <<b_Q>> \o to_be_bytes(3),
      <<b_Z>> \o to_be_bytes(0) \o <<b_I>>,
      <<b_S>> \o to_be_bytes(4),
      to_be_bytes(7) \o to_be_bytes(STARTUP_VERSION_3_0),
      to_be_bytes(10001) \o to_be_bytes(STARTUP_VERSION_3_0),
      to_be_bytes(0) \o to_be_bytes(0),
      to_be_bytes(10000) \o to_be_bytes(0) }

\* the packets handed to the hooks
PhaseOps ==
    [kind : {"Startup"},
     version : {SSL_REQUEST_CODE, STARTUP_VERSION_3_0, CANCEL_REQUEST_CODE}]
    \cup [kind : {"StartupParams"}, version : {SSL_REQUEST_CODE, STARTUP_VERSION_3_0}]
    \cup [kind : {"Startup"}, version : {0}]
    \cup [kind : {"Query"}, sql : {SqlA}]
    \cup [kind : {"ReadyForQuery"}, status : {b_I}]
    \cup [kind : {"Parse"}, name : {<<115, 49>>}, sql : {SqlA}]
    \cup [kind : {"Bind"}, portal : {<<112, 49>>}, stmt : {<<115, 49>>}]
    \cup [kind : {"Raw"}, bytes : RawPackets]

\* the bytes of a packet
EncodePhaseOp(op) ==
    CASE op.kind = "StartupParams" -> make_startup_with_params(op.version, StartupParams)
      [] op.kind = "Raw" -> op.bytes
      [] OTHER -> EncodeFrame(op)

\* the bytes of the packet in the buffer: the first 7, the first 8, all
PhaseLens(bytes) == { k \in {7, 8, Len(bytes)} : k <= Len(bytes) }

\* the buffer holds the code of an SSLRequest
HoldsSslRequest(buf) ==
    Len(buf) >= 8 /\ from_be_bytes(buf[5], buf[6], buf[7], buf[8]) = SSL_REQUEST_CODE

\* the parser after a hook returned r on the call
Called(hook, op, buf, direction, r) ==
    /\ parser' = r.parser
    /\ lastEvent' = IF hook = "try_parse" THEN Returned(r) ELSE None
    /\ lastOp' = [kind |-> "Call", hook |-> hook, op |-> op, buf |-> buf,
                  direction |-> direction, phase |-> parser.phase]

\* parser.try_parse(buf, direction)
CallTryParse(op, k, direction) ==
    /\ Called("try_parse", op, SubSeq(EncodePhaseOp(op), 1, k), direction,
              try_parse(parser, SubSeq(EncodePhaseOp(op), 1, k), direction))
    /\ UNCHANGED <<refStmts, refPortals, bindSql, trace, svars, rvars>>

\* parser.handle_startup_intercept(buf, direction)
CallIntercept(op, k, direction) ==
    /\ Called("handle_startup_intercept", op, SubSeq(EncodePhaseOp(op), 1, k), direction,
              handle_startup_intercept(parser, SubSeq(EncodePhaseOp(op), 1, k), direction))
    /\ UNCHANGED <<refStmts, refPortals, bindSql, trace, svars, rvars>>

NextPhase ==
    \E op \in PhaseOps, direction \in {Frontend, Backend} :
        \E k \in PhaseLens(EncodePhaseOp(op)) :
            \/ CallTryParse(op, k, direction)
            \/ CallIntercept(op, k, direction)

SpecPhase == InitParser /\ [][NextPhase]_vars

\* the buffer of a call that try_parse reads as a regular message, with the
\* tag and the length field in it
RegularHeader(call) ==
    /\ call.hook = "try_parse"
    /\ ~(call.phase \in {AwaitingStartup, AwaitingStartupAfterSslReject}
          /\ call.direction = Frontend)
    /\ Len(call.buf) >= 5

\* the buffer of a call that try_parse reads as a startup packet, with the
\* length field and the version code in it
StartupHeader(call) ==
    /\ call.hook = "try_parse"
    /\ call.phase \in {AwaitingStartup, AwaitingStartupAfterSslReject}
    /\ call.direction = Frontend
    /\ Len(call.buf) >= 8

\* the length field of the buffer, from its byte k
LengthField(buf, k) == from_be_bytes(buf[k], buf[k + 1], buf[k + 2], buf[k + 3])

\* the framing of the call is malformed
Malformed(call) ==
    \/ RegularHeader(call) /\ LengthField(call.buf, 2) < 4
    \/ StartupHeader(call) /\ ~(LengthField(call.buf, 1) \in 8..10000)

\* C31: a regular message with a length field below 4 and a startup packet
\* with a length field outside 8..10000 make try_parse return an Unknown
\* event with 1 byte consumed, and the phase, the statements and the portals
\* stay as they were.
C31_MalformedFramingIsUnknown ==
    [][ Malformed(lastOp') =>
          /\ lastEvent'.some
          /\ lastEvent'.event.type = "Unknown"
          /\ lastEvent'.consumed = 1
          /\ parser' = parser ]_vars

\* a regular message with the length field 3 was skipped by a parser that
\* holds a statement and a portal
C31_Witness ==
    /\ lastOp.kind = "Call"
    /\ Malformed(lastOp)
    /\ lastOp.phase = Ready
    /\ lastOp.buf = <<b_Q>> \o to_be_bytes(3)
    /\ lastEvent = [some |-> TRUE, event |-> Unknown(b_Q), consumed |-> 1]
    /\ parser.statements # EmptyMap
    /\ parser.portals # EmptyMap

\* C37: whenever try_parse returns an event, in every phase and direction
\* and for every buffer, 1 <= consumed <= the length of the buffer: what
\* the parse loop of the relay keeps after split_to(consumed) is strictly
\* shorter than the buffer, and split_to never goes past its end.
C37_ConsumedWithinBuffer ==
    (lastOp.kind = "Call" /\ lastOp.hook = "try_parse" /\ lastEvent.some) =>
        /\ 1 <= lastEvent.consumed
        /\ lastEvent.consumed <= Len(lastOp.buf)
        /\ Len(SubSeq(lastOp.buf, lastEvent.consumed + 1, Len(lastOp.buf)))
              < Len(lastOp.buf)

\* a startup packet with parameters was taken whole from the frontend: the
\* count is the length of the buffer
C37_Witness ==
    /\ lastOp.kind = "Call"
    /\ lastOp.hook = "try_parse"
    /\ lastOp.phase = AwaitingStartup
    /\ lastOp.direction = Frontend
    /\ lastEvent.some
    /\ lastEvent.consumed = Len(lastOp.buf)
    /\ Len(lastOp.buf) > 8
    /\ parser.phase = Authenticating

\* the place of a phase in the order of the connection
PhaseRank(phase) ==
    CASE phase = AwaitingStartup -> 0
      [] phase = AwaitingStartupAfterSslReject -> 1
      [] phase = Authenticating -> 2
      [] phase = Ready -> 3

\* C30: whatever the hooks are called with, the phase never moves backward
\* in the order AwaitingStartup, AwaitingStartupAfterSslReject,
\* Authenticating, Ready, and it changes only from AwaitingStartup to
\* AwaitingStartupAfterSslReject by the intercept hook on an SSLRequest, from
\* an awaiting phase to Authenticating by try_parse on a frontend
\* StartupMessage of version 196608, and from Authenticating to Ready by
\* try_parse on a backend ReadyForQuery.
C30_PhaseMovesForwardOnly ==
    [][ /\ PhaseRank(parser'.phase) >= PhaseRank(parser.phase)
        /\ parser'.phase # parser.phase =>
              \/ /\ parser.phase = AwaitingStartup
                 /\ parser'.phase = AwaitingStartupAfterSslReject
                 /\ lastOp'.hook = "handle_startup_intercept"
                 /\ HoldsSslRequest(lastOp'.buf)
              \/ /\ parser.phase \in {AwaitingStartup, AwaitingStartupAfterSslReject}
                 /\ parser'.phase = Authenticating
                 /\ lastOp'.hook = "try_parse"
                 /\ lastOp'.direction = Frontend
                 /\ IsStartup(lastOp'.op)
                 /\ lastOp'.op.version = STARTUP_VERSION_3_0
                 /\ lastOp'.buf = EncodePhaseOp(lastOp'.op)
              \/ /\ parser.phase = Authenticating
                 /\ parser'.phase = Ready
                 /\ lastOp'.hook = "try_parse"
                 /\ lastOp'.direction = Backend
                 /\ lastOp'.op.kind = "ReadyForQuery"
                 /\ lastOp'.buf = EncodePhaseOp(lastOp'.op) ]_vars

\* the phase is Ready and a frontend StartupMessage of version 196608 was
\* handed to try_parse: the phase stayed
C30_Witness ==
    /\ parser.phase = Ready
    /\ lastOp.kind = "Call"
    /\ lastOp.phase = Ready
    /\ lastOp.hook = "try_parse"
    /\ lastOp.direction = Frontend
    /\ lastOp.op = [kind |-> "Startup", version |-> STARTUP_VERSION_3_0]
    /\ lastOp.buf = make_startup_message(STARTUP_VERSION_3_0)

\* C11: try_parse on exactly the bytes of a well-formed frame returns one
\* event and consumes the size of the frame: 1 + length for a regular
\* message, length for a startup message.
C11_WholeFrameConsumed ==
    (lastOp.kind = "Frame" /\ lastOp.k = lastOp.size) =>
        /\ lastEvent.some
        /\ lastEvent.consumed = lastOp.declared
        /\ lastEvent.consumed = lastOp.size

\* a regular frame was parsed before the StartupMessage (backend direction),
\* and a startup frame with parameters
C11_Witness ==
    /\ lastOp.kind = "Frame"
    /\ lastOp.k = lastOp.size
    /\ lastEvent.some
    /\ \/ lastOp.op.kind = "ReadyForQuery" /\ lastOp.phase = AwaitingStartup
       \/ lastOp.op.kind = "StartupParams"

\* C12: on a proper prefix of a well-formed frame try_parse returns None and
\* leaves the phase, the statements and the portals as they were.
C12_PrefixNeedsMore ==
    (lastOp.kind = "Frame" /\ lastOp.k < lastOp.size) =>
        /\ ~lastEvent.some
        /\ lastOp.kept

\* a StartupMessage v3.0 was cut after its version code
C12_Witness ==
    /\ lastOp.kind = "Frame"
    /\ lastOp.op.kind = "StartupParams"
    /\ lastOp.k >= 8
    /\ lastOp.k < lastOp.size
    /\ ~lastEvent.some

\* a string of at most MAX_SQL_LEN bytes, or at most MAX_SQL_LEN bytes that
\* end with a whole character, and "..." after them
SqlBounded(sql) ==
    \/ Len(sql) <= MAX_SQL_LEN
    \/ /\ Len(sql) <= MAX_SQL_LEN + 3
       /\ SubSeq(sql, Len(sql) - 2, Len(sql)) = Ellipsis
       /\ from_utf8_lossy(SubSeq(sql, 1, Len(sql) - 3)) = SubSeq(sql, 1, Len(sql) - 3)

\* C16: the sql of every QueryStart and ParseDetected event is at most
\* MAX_SQL_LEN bytes long, or at most MAX_SQL_LEN bytes cut at a character
\* boundary and "..." after them, for Simple Query, Parse and Execute, the
\* portal known or not.
C16_SqlBounded ==
    (lastEvent.some /\ lastEvent.event.type \in {"QueryStart", "ParseDetected"}) =>
        SqlBounded(lastEvent.event.sql)

\* the end of the last whitespace-delimited token of tag, 0 when it has none
LastTokenEnd(tag) ==
    IF \A i \in 1..Len(tag) : is_ascii_whitespace(tag[i]) THEN 0
    ELSE CHOOSE i \in 1..Len(tag) :
            /\ ~is_ascii_whitespace(tag[i])
            /\ \A k \in (i + 1)..Len(tag) : is_ascii_whitespace(tag[k])

\* the last whitespace-delimited token of tag
LastToken(tag) ==
    LET end == LastTokenEnd(tag)
        starts == { i \in 1..end : \A k \in i..end : ~is_ascii_whitespace(tag[k]) }
    IN  IF end = 0 THEN <<>>
        ELSE SubSeq(tag, CHOOSE i \in starts : \A k \in starts : i <= k, end)

\* a decimal number: one or more digits
IsDecimal(token) == token # <<>> /\ \A i \in 1..Len(token) : is_digit(token[i])

\* C21: the rows of the QueryComplete of a CommandComplete frame is the value
\* of the last whitespace-delimited token of its command tag when that token
\* is a decimal number, and none otherwise.
C21_RowsIsLastDecimalToken ==
    (lastOp.kind = "Frame" /\ lastOp.op.kind = "CommandComplete" /\ lastEvent.some) =>
        /\ lastEvent.event.type = "QueryComplete"
        /\ lastEvent.event.rows =
               IF IsDecimal(LastToken(lastOp.op.tag))
               THEN Some(digits_value(LastToken(lastOp.op.tag), Len(LastToken(lastOp.op.tag))))
               ELSE None

----------------------------------------------------------------------------
(* SpecStats: the collector called as run_raw_mode and run_tui call it, all
   calls within one millisecond of the clock *)

\* "42", "m", "NOTICE"
ErrCode == <<52, 50>>
ErrMessage == <<109>>
SeverityNotice == <<78, 79, 84, 73, 67, 69>>

\* the events the parser hands the collector
StatsEvents ==
    { QueryStart(q) : q \in Sqls }
    \cup { ParseDetected(SqlA) }
    \cup { QueryComplete(SqlB, parse_command_tag_rows(SqlB)) }
    \cup { QueryError([severity |-> sev, code |-> ErrCode, message |-> ErrMessage])
              : sev \in {SeverityError, SeverityNotice} }
    \cup { ConnectionReady("Failed") }
    \cup { ConnectionClosed, Unknown(b_S) }

\* the pending FIFO of a connection, empty when the collector has no entry
Pending(st, c) ==
    IF c \in DOMAIN st.connections THEN st.connections[c].pending_queries ELSE <<>>

\* the observer of the ConnectionClosed display events and of the decrements
\* of active_connections, after a call for connection c returned out
ClosedAfter(c, st, out) ==
    [closed EXCEPT
       ![c] = [displays |->
                  IF out.display.some /\ out.display.val.kind.type = "ConnectionClosed"
                  THEN Min(@.displays + 1, 2) ELSE @.displays,
               decrements |->
                  IF out.stats.active_connections < st.active_connections
                  THEN Min(@.decrements + 1, 2) ELSE @.decrements]]

\* the observer of scenario 4 on connection 1, from its ConnectionOpened on
StraceAfter(c, event, out) ==
    IF c # 1 THEN strace
    ELSE IF strace.on /\ strace.n < Len(Scenario4)
            /\ event.type = Scenario4[strace.n + 1]
            /\ (event.type = "QueryError" => event.severity = SeverityError)
         THEN [on |-> TRUE, n |-> strace.n + 1,
               displays |-> Append(strace.displays, out.display)]
    ELSE [on |-> FALSE, n |-> 0, displays |-> <<>>]

InitStats ==
    /\ StatsIdle
    /\ ParserIdle
    /\ RelayIdle

\* ProxyMessage::ConnectionOpened
ConnOpened(c) ==
    /\ life[c] = "new"
    /\ LET out == connection_opened(stats, c)
       IN  /\ stats' = out.stats
           /\ display' = out.display
    /\ life' = [life EXCEPT ![c] = "open"]
    /\ UNCHANGED <<clock, strace, top, closed, pvars, rvars>>

\* ProxyMessage::ConnectionClosed
ConnDropped(c) ==
    /\ life[c] = "open"
    /\ LET out == connection_dropped(stats, c)
       IN  /\ stats' = out.stats
           /\ display' = out.display
    /\ life' = [life EXCEPT ![c] = "dropped"]
    /\ UNCHANGED <<clock, strace, top, closed, pvars, rvars>>

\* ProxyMessage::Event
ProcessEvent(c, event) ==
    /\ life[c] # "new"
    /\ event.type = "QueryStart" => Len(Pending(stats, c)) < MaxPending
    /\ (event.type = "QueryComplete" /\ Pending(stats, c) # <<>>) =>
           stats.total_queries < MaxQueries
    /\ event.type = "QueryError" => stats.total_errors < MaxErrors
    /\ LET out == process_event(stats, c, event, clock)
       IN  /\ ~out.panic
           /\ stats' = out.stats
           /\ display' = out.display
           /\ strace' = StraceAfter(c, event, out)
    /\ UNCHANGED <<clock, life, top, closed, pvars, rvars>>

\* the 'r' key of the dashboard
Reset ==
    /\ stats' = reset(stats)
    /\ display' = None
    /\ UNCHANGED <<clock, life, strace, top, closed, pvars, rvars>>

NextStats ==
    \/ \E c \in ConnIds : ConnOpened(c)
    \/ \E c \in ConnIds : ConnDropped(c)
    \/ \E c \in ConnIds, event \in StatsEvents : ProcessEvent(c, event)
    \/ Reset

SpecStats == InitStats /\ [][NextStats]_vars

\* the display events of kind type among what a run of calls returned
RECURSIVE CountDisplays(_, _)
CountDisplays(ds, type) ==
    IF ds = <<>> THEN 0
    ELSE (IF Head(ds).some /\ Head(ds).val.kind.type = type THEN 1 ELSE 0)
         + CountDisplays(Tail(ds), type)

\* the instants at which the collector is called, in milliseconds
Instants == {0, 1, 5, 10, 50, 100}

\* the queries completed between two resets
MaxCompleted == 2

\* the events of a connection that runs queries
LatencyEvents ==
    { QueryStart(q) : q \in Sqls }
    \cup { QueryComplete(SqlB, parse_command_tag_rows(SqlB)) }
    \cup { QueryError([severity |-> sev, code |-> ErrCode, message |-> ErrMessage])
              : sev \in {SeverityError, SeverityFatal, SeverityNotice} }
    \cup { ConnectionReady("Idle") }

\* time passes between two calls
Tick(t) ==
    /\ t > clock
    /\ clock' = t
    /\ UNCHANGED <<stats, life, display, strace, top, closed, pvars, rvars>>

\* ProxyMessage::Event at the instant of the clock
ProcessEventAt(c, event) ==
    /\ life[c] # "new"
    /\ event.type = "QueryStart" => Len(Pending(stats, c)) < MaxPending
    /\ (event.type = "QueryComplete" /\ Pending(stats, c) # <<>>) =>
           stats.total_queries < MaxCompleted
    /\ event.type = "QueryError" => stats.total_errors < MaxErrors
    /\ LET out == process_event(stats, c, event, clock)
       IN  /\ ~out.panic
           /\ stats' = out.stats
           /\ display' = out.display
    /\ UNCHANGED <<clock, life, strace, top, closed, pvars, rvars>>

\* the calls of the correlator for connection 1, at the instants of a clock
\* that advances
NextLatency ==
    \/ ConnOpened(1)
    \/ ConnDropped(1)
    \/ \E event \in LatencyEvents : ProcessEventAt(1, event)
    \/ Reset
    \/ \E t \in Instants : Tick(t)

SpecLatency == InitStats /\ [][NextLatency]_vars

\* the lower ends of the six ranges, in milliseconds: [0,1), [1,5), [5,10),
\* [10,50), [50,100), [100,inf)
RangeFrom == <<0, 1, 5, 10, 50, 100>>

\* the range that contains ms
RangeOf(ms) ==
    CHOOSE b \in 1..6 : RangeFrom[b] <= ms /\ (b < 6 => ms < RangeFrom[b + 1])

\* the sum of the six bucket counts
BucketSum(st) ==
    st.latency_buckets[1] + st.latency_buckets[2] + st.latency_buckets[3]
        + st.latency_buckets[4] + st.latency_buckets[5] + st.latency_buckets[6]

\* a call completed the oldest pending query of connection c
Completed(c) ==
    /\ stats'.total_queries = stats.total_queries + 1
    /\ Pending(stats, c) # <<>>
    /\ Pending(stats', c) = Tail(Pending(stats, c))

\* C19: after every call the six latency bucket counts sum to
\* total_queries, and a call that
\* completes a pending query adds one to the bucket whose range contains the
\* time elapsed since its QueryStart and leaves the other five; no other
\* call adds to a bucket.
C19_BucketsSumToTotal ==
    [][ /\ BucketSum(stats') = stats'.total_queries
        /\ \A c \in ConnIds :
             Completed(c) =>
                 stats'.latency_buckets =
                     [stats.latency_buckets EXCEPT
                         ![RangeOf(clock - Head(Pending(stats, c)).started_at)] = @ + 1]
        /\ stats'.total_queries <= stats.total_queries =>
             \A b \in 1..6 : stats'.latency_buckets[b] <= stats.latency_buckets[b]
      ]_vars

\* two queries were completed, one after less than 50 ms and one after 100 ms
\* or more
C19_Witness ==
    /\ stats.total_queries = 2
    /\ stats.latency_buckets[4] = 1
    /\ stats.latency_buckets[6] = 1

\* C20: every fingerprint aggregate in the map has count > 0,
\* min_duration <= max_duration and
\* min_duration * count <= total_duration <= max_duration * count.
C20_AggregateBounds ==
    \A fp \in DOMAIN stats.fingerprints :
        LET agg == stats.fingerprints[fp]
        IN  /\ agg.count > 0
            /\ agg.min_duration <= agg.max_duration
            /\ agg.min_duration * agg.count <= agg.total_duration
            /\ agg.total_duration <= agg.max_duration * agg.count

\* a fingerprint that aggregates two queries of different durations
C20_Witness ==
    \E fp \in DOMAIN stats.fingerprints :
        LET agg == stats.fingerprints[fp]
        IN  /\ agg.count = 2
            /\ 0 < agg.min_duration
            /\ agg.min_duration < agg.max_duration
            /\ agg.total_duration = agg.min_duration + agg.max_duration

\* C33: a QueryError returns an Error display event exactly when its
\* severity is ERROR or FATAL; for every severity it removes the oldest
\* pending query of its connection when there is one; the Error display
\* event carries that query's SQL and the time elapsed since its QueryStart,
\* and neither of them when the FIFO was empty or the collector had no entry
\* for the connection.
C33_QueryErrorPopsAndReports ==
    [][ \A ev \in LatencyEvents :
          (ev.type = "QueryError" /\ ProcessEventAt(1, ev)) =>
            /\ display'.some <=> ev.severity \in {SeverityError, SeverityFatal}
            /\ display'.some =>
                  /\ display'.val.conn_id = 1
                  /\ display'.val.kind.type = "Error"
            /\ Pending(stats, 1) # <<>> =>
                  /\ Pending(stats', 1) = Tail(Pending(stats, 1))
                  /\ display'.some =>
                        /\ display'.val.kind.sql = Some(Head(Pending(stats, 1)).sql)
                        /\ display'.val.kind.duration
                              = Some(clock - Head(Pending(stats, 1)).started_at)
            /\ Pending(stats, 1) = <<>> =>
                  /\ stats'.connections = stats.connections
                  /\ display'.some =>
                        /\ display'.val.kind.sql = None
                        /\ display'.val.kind.duration = None
      ]_vars

\* an error was reported 5 ms or more after the start of the older of two
\* pending queries, and the other one is still pending
C33_Witness ==
    /\ display.some
    /\ display.val.kind.type = "Error"
    /\ display.val.kind.sql = Some(SqlA)
    /\ display.val.kind.duration.some
    /\ display.val.kind.duration.val >= 5
    /\ stats.total_errors = 1
    /\ Pending(stats, 1) # <<>>
    /\ Head(Pending(stats, 1)).sql = SqlB

\* the fingerprints of three queries: "a", "b", "c"
TopKeys == { <<97>>, <<98>>, <<99>> }

\* the longest query recorded, in milliseconds, and the largest n asked for
MaxDuration == 2
MaxTop == 3

\* the orders in which a map with the keys keys can be iterated
Iterations(keys) ==
    { p \in [1..Cardinality(keys) -> keys] :
        \A i, j \in 1..Cardinality(keys) : i # j => p[i] # p[j] }

\* the collector after one completed query of duration d[k] for every
\* fingerprint k with d[k] > 0
Recorded(d) ==
    LET rec(st, k) == IF d[k] = 0 THEN st ELSE record_fingerprint(st, k, d[k])
    IN  rec(rec(rec(StatsCollector_new, <<97>>), <<98>>), <<99>>)

\* a collector that has recorded queries; its HashMap iterates them in some
\* order
InitTop ==
    /\ ParserIdle
    /\ RelayIdle
    /\ clock = 0
    /\ life = [c \in ConnIds |-> "new"]
    /\ display = None
    /\ strace = StraceStart
    /\ closed = [c \in ConnIds |-> [displays |-> 0, decrements |-> 0]]
    /\ \E d \in [TopKeys -> 0..MaxDuration] :
         /\ stats = Recorded(d)
         /\ \E iteration \in Iterations(DOMAIN Recorded(d).fingerprints) :
              top = [NoTop EXCEPT !.iteration = iteration]

\* the dashboard calls top_queries(n)
TopQueries(n) ==
    /\ top' = [top EXCEPT !.called = TRUE, !.n = n,
                          !.result = top_queries(stats, top.iteration, n)]
    /\ UNCHANGED <<stats, clock, life, display, strace, closed, pvars, rvars>>

\* the aggregates are put into a new HashMap (a snapshot is saved and loaded,
\* the program is started again): its RandomState iterates them in another order
Rebuild(iteration) ==
    /\ iteration # top.iteration
    /\ top' = [top EXCEPT !.iteration = iteration]
    /\ UNCHANGED <<stats, clock, life, display, strace, closed, pvars, rvars>>

NextTop ==
    \/ \E n \in 0..MaxTop : TopQueries(n)
    \/ \E iteration \in Iterations(DOMAIN stats.fingerprints) : Rebuild(iteration)

SpecTop == InitTop /\ [][NextTop]_vars

\* the aggregates of the map that a result leaves out
Omitted(fingerprints, result) ==
    { fingerprints[k] : k \in DOMAIN fingerprints } \ { result[i] : i \in 1..Len(result) }

\* C22: top_queries(n) returns min(n, number of aggregates) aggregates of the
\* map in descending total_duration order, none of them smaller than one it
\* leaves out; and the order of aggregates with equal total_duration is
\* fixed by a secondary key, so that two calls with the same n on the same
\* set of aggregates return the same result.
C22_TopQueriesSortedAndStable ==
    [][ top'.called =>
          /\ Len(top'.result) = Min(top'.n, Cardinality(DOMAIN stats'.fingerprints))
          /\ \A i \in 1..Len(top'.result) :
                \E k \in DOMAIN stats'.fingerprints : top'.result[i] = stats'.fingerprints[k]
          /\ \A i, j \in 1..Len(top'.result) :
                i < j => /\ top'.result[i] # top'.result[j]
                         /\ top'.result[i].total_duration >= top'.result[j].total_duration
          /\ \A i \in 1..Len(top'.result) : \A o \in Omitted(stats'.fingerprints, top'.result) :
                top'.result[i].total_duration >= o.total_duration
          /\ (top.called /\ top'.n = top.n /\ stats'.fingerprints = stats.fingerprints) =>
                top'.result = top.result
      ]_vars

\* 1 when a call returned a display event of the type, else 0
Emitted(returned, type) ==
    IF returned.some /\ returned.val.kind.type = type THEN 1 ELSE 0

\* C18: active_connections is the number of ConnectionOpened display events
\* emitted minus the number of ConnectionClosed display events emitted:
\* every call changes it by what the call emitted.
C18_ActiveIsOpenedMinusClosed ==
    [][ stats'.active_connections - stats.active_connections =
            Emitted(display', "ConnectionOpened") - Emitted(display', "ConnectionClosed")
      ]_vars

RECURSIVE CountOver(_, _)
\* the sum of count over the aggregates of the fingerprints fps
CountOver(st, fps) ==
    IF fps = {} THEN 0
    ELSE LET fp == CHOOSE x \in fps : TRUE
         IN  st.fingerprints[fp].count + CountOver(st, fps \ {fp})

\* the sum of count over all fingerprint aggregates
CountSum(st) == CountOver(st, DOMAIN st.fingerprints)

\* C35: reset puts the aggregates, the six buckets, total_queries,
\* total_errors, the QPS window and the first and last query times back to
\* their values in a new collector and leaves the connections map, with
\* every pending FIFO, and active_connections; a query that is pending
\* across a reset is counted once when it completes.
C35_ResetKeepsLiveState ==
    [][ /\ Reset =>
              stats' = [StatsCollector_new EXCEPT
                           !.connections = stats.connections,
                           !.active_connections = stats.active_connections]
        /\ \A c \in ConnIds, ev \in StatsEvents :
              (ev.type = "QueryComplete" /\ ProcessEvent(c, ev)
                   /\ Pending(stats, c) # <<>>) =>
                /\ stats'.total_queries = stats.total_queries + 1
                /\ BucketSum(stats') = BucketSum(stats) + 1
                /\ CountSum(stats') = CountSum(stats) + 1
                /\ Len(stats'.qps_window) = Len(stats.qps_window) + 1
      ]_vars

\* connection 1 sent two queries and the first failed; since then it sent
\* nothing, the collector was reset, and the second query is still pending
C35_Witness ==
    /\ strace.n = 3
    /\ stats.total_errors = 0
    /\ stats.total_queries = 0
    /\ Len(Pending(stats, 1)) = 1
    /\ stats.active_connections = 2
    /\ display = None

\* C40: after every call the counts of the fingerprint aggregates sum to
\* total_queries; total_queries grows only in a QueryComplete that removes
\* the oldest pending query of its connection; and a QueryComplete that
\* finds the FIFO empty or no entry for the connection changes no counter,
\* bucket or aggregate.
C40_CountsSumToTotal ==
    [][ /\ CountSum(stats') = stats'.total_queries
        /\ stats'.total_queries > stats.total_queries =>
              \E ev \in LatencyEvents :
                  /\ ev.type = "QueryComplete"
                  /\ ProcessEventAt(1, ev)
                  /\ Pending(stats, 1) # <<>>
                  /\ Pending(stats', 1) = Tail(Pending(stats, 1))
        /\ \A ev \in LatencyEvents :
              (ev.type = "QueryComplete" /\ ProcessEventAt(1, ev)
                   /\ Pending(stats, 1) = <<>>) =>
                /\ stats'.total_queries = stats.total_queries
                /\ stats'.total_errors = stats.total_errors
                /\ stats'.latency_buckets = stats.latency_buckets
                /\ stats'.fingerprints = stats.fingerprints
      ]_vars

\* two queries of one fingerprint were completed, and the connection is gone
\* from the collector
C40_Witness ==
    /\ stats.total_queries = 2
    /\ \E fp \in DOMAIN stats.fingerprints : stats.fingerprints[fp].count = 2
    /\ 1 \notin DOMAIN stats.connections
    /\ life[1] = "dropped"

\* C34: processing ParseDetected returns one Warning display event for its
\* connection and leaves the collector as it was: every pending FIFO,
\* total_queries, total_errors, the histogram, the aggregates and
\* active_connections; a pending FIFO grows only in a QueryStart of its
\* connection.
C34_ParseDetectedOnlyWarns ==
    [][ \A c \in ConnIds :
          /\ \A ev \in StatsEvents :
                (ev.type = "ParseDetected" /\ ProcessEvent(c, ev)) =>
                  /\ display' = Some(DisplayEvent(c,
                          DisplayWarning(WarningPrefix \o truncate(ev.sql, 80))))
                  /\ stats' = stats
          /\ Len(Pending(stats', c)) > Len(Pending(stats, c)) =>
                \E ev \in StatsEvents :
                    ev.type = "QueryStart" /\ ProcessEvent(c, ev)
      ]_vars

\* a Parse of connection 2 was reported while it had a pending query, one
\* query was counted and connection 1 had a pending query too
C34_Witness ==
    /\ display.some
    /\ display.val.conn_id = 2
    /\ display.val.kind.type = "Warning"
    /\ Len(Pending(stats, 2)) = 1
    /\ Pending(stats, 1) # <<>>
    /\ stats.total_queries = 1
    /\ stats.active_connections = 2

\* C7: per connection the pending queries are a FIFO. QueryStart appends;
\* a QueryComplete removes the oldest pending query of its own connection
\* and returns a Query display event of that connection with that query's
\* SQL; no call for one connection changes the FIFO of another.
C7_PendingFifo ==
    [][ /\ \A c \in ConnIds, ev \in StatsEvents :
             ProcessEvent(c, ev) =>
               /\ ev.type = "QueryStart" =>
                    Pending(stats', c)
                      = Append(Pending(stats, c), [sql |-> ev.sql, started_at |-> clock])
               /\ (ev.type = "QueryComplete" /\ Pending(stats, c) # <<>>) =>
                    /\ Pending(stats', c) = Tail(Pending(stats, c))
                    /\ display'.some
                    /\ display'.val.conn_id = c
                    /\ display'.val.kind.type = "Query"
                    /\ display'.val.kind.sql = Head(Pending(stats, c)).sql
               /\ \A d \in ConnIds \ {c} : Pending(stats', d) = Pending(stats, d)
        /\ \A c \in ConnIds :
             (ConnOpened(c) \/ ConnDropped(c)) =>
               \A d \in ConnIds \ {c} : Pending(stats', d) = Pending(stats, d)
      ]_vars

\* a QueryComplete took the older of two pending queries with different SQL
\* while the other connection had a pending query
C7_Witness ==
    /\ display.some
    /\ display.val.kind.type = "Query"
    /\ Pending(stats, display.val.conn_id) # <<>>
    /\ Head(Pending(stats, display.val.conn_id)).sql # display.val.kind.sql
    /\ \E d \in ConnIds \ {display.val.conn_id} : Pending(stats, d) # <<>>

\* C8: ConnectionReady leaves the pending FIFO of its connection empty;
\* QueryStart, QueryStart, QueryError(ERROR), ConnectionReady on one
\* connection return exactly one Error and no Query display event; and a
\* QueryComplete that finds no pending query returns nothing and leaves the
\* collector as it was.
C8_ReadyClearsPending ==
    /\ [](strace.n >= 4 =>
            /\ CountDisplays(strace.displays, "Error") = 1
            /\ CountDisplays(strace.displays, "Query") = 0)
    /\ [](strace.n = 5 => ~strace.displays[5].some)
    /\ [][ \A c \in ConnIds, ev \in StatsEvents :
             ProcessEvent(c, ev) =>
               /\ ev.type = "ConnectionReady" => Pending(stats', c) = <<>>
               /\ (ev.type = "QueryComplete" /\ Pending(stats, c) = <<>>) =>
                    /\ display' = None
                    /\ stats' = stats
         ]_vars

\* scenario 4 ran on connection 1, the late QueryComplete included
C8_Witness == strace.n = 5

----------------------------------------------------------------------------
(* SpecClose: the ends of two connections as the correlator sees them.  All *)
(* events of a connection come before the ConnectionClosed message of the   *)
(* proxy.                                                                    *)

\* what a client that sends Terminate makes the parser hand the collector
CloseEvents ==
    { QueryStart(SqlA), QueryComplete(SqlB, parse_command_tag_rows(SqlB)),
      ConnectionClosed }

\* ProxyMessage::ConnectionClosed
CloseDropped(c) ==
    /\ life[c] = "open"
    /\ LET out == connection_dropped(stats, c)
       IN  /\ stats' = out.stats
           /\ display' = out.display
           /\ closed' = ClosedAfter(c, stats, out)
    /\ life' = [life EXCEPT ![c] = "dropped"]
    /\ UNCHANGED <<clock, strace, top, pvars, rvars>>

\* ProxyMessage::Event of a connection whose socket is open
CloseEvent(c, event) ==
    /\ life[c] = "open"
    /\ event.type = "QueryStart" => Len(Pending(stats, c)) < MaxPending
    /\ (event.type = "QueryComplete" /\ Pending(stats, c) # <<>>) =>
           stats.total_queries < MaxQueries
    /\ LET out == process_event(stats, c, event, clock)
       IN  /\ ~out.panic
           /\ stats' = out.stats
           /\ display' = out.display
           /\ closed' = ClosedAfter(c, stats, out)
    /\ UNCHANGED <<clock, life, strace, top, pvars, rvars>>

NextClose ==
    \/ \E c \in ConnIds : ConnOpened(c)
    \/ \E c \in ConnIds : CloseDropped(c)
    \/ \E c \in ConnIds, event \in CloseEvents : CloseEvent(c, event)

SpecClose == InitStats /\ [][NextClose]_vars

\* C39: for each connection id the correlator returns at most one
\* ConnectionClosed display event and takes the connection off
\* active_connections at most once, whatever the client sends: a Terminate
\* and then the end of the socket, several Terminates, or queries after a
\* Terminate.
C39_ClosedAtMostOnce ==
    \A c \in ConnIds :
        /\ closed[c].displays <= 1
        /\ closed[c].decrements <= 1

----------------------------------------------------------------------------
(* SpecFingerprint: one connection runs one query at a time; the correlator *)
(* fingerprints its text when it completes.  The texts are built from the   *)
(* parts below.                                                             *)

\* what stands before the keyword of an IN list: "", "x ", "x", "x_", "1 ", "("
InBefore ==
    { <<>>,
      <<120, 32>>,
      <<120>>,
      <<120, 95>>,
      <<49, 32>>,
      <<40>> }

\* the keyword: "IN", "in", "In"
InKeyword ==
    { <<73, 78>>,
      <<105, 110>>,
      <<73, 110>> }

\* what stands between the keyword and the parenthesis: "", " "
InGap ==
    { <<>>,
      <<32>> }

\* the elements of the list: "1", "1, 2", "1,2,3", "'a'", "'a', 2.5", "x", "1, x", ""
InElements ==
    { <<49>>,
      <<49, 44, 32, 50>>,
      <<49, 44, 50, 44, 51>>,
      <<39, 97, 39>>,
      <<39, 97, 39, 44, 32, 50, 46, 53>>,
      <<120>>,
      <<49, 44, 32, 120>>,
      <<>> }

\* what stands before a parameter placeholder: "", "a ", "(", "= ", "INSERT INTO t VALUES ("
ParamBefore ==
    { <<>>,
      <<97, 32>>,
      <<40>>,
      <<61, 32>>,
      <<73, 78, 83, 69, 82, 84, 32, 73, 78, 84, 79, 32, 116, 32, 86, 65, 76, 85, 69, 83, 32, 40>> }

\* the number of a parameter placeholder: "1", "2", "9", "10"
ParamNumber ==
    { <<49>>,
      <<50>>,
      <<57>>,
      <<49, 48>> }

\* what stands after a parameter placeholder: "", ")", " b", ", $2"
ParamAfter ==
    { <<>>,
      <<41>>,
      <<32, 98>>,
      <<44, 32, 36, 50>> }

\* the parts of names and numbers: "a", "T", "_", "1", "42", " ", "="
WordParts ==
    { <<97>>,
      <<84>>,
      <<95>>,
      <<49>>,
      <<52, 50>>,
      <<32>>,
      <<61>> }

\* non-ASCII characters and unterminated literals: "é", "SELECT é", "$$é$$", "$$é", "'é'", "'é", "'abc", "''", "'", "$", "$$", "$a$x", "$a$é$a$", "€", "�", "a IN (ß)"
HostileTexts ==
    { <<195, 169>>,
      <<83, 69, 76, 69, 67, 84, 32, 195, 169>>,
      <<36, 36, 195, 169, 36, 36>>,
      <<36, 36, 195, 169>>,
      <<39, 195, 169, 39>>,
      <<39, 195, 169>>,
      <<39, 97, 98, 99>>,
      <<39, 39>>,
      <<39>>,
      <<36>>,
      <<36, 36>>,
      <<36, 97, 36, 120>>,
      <<36, 97, 36, 195, 169, 36, 97, 36>>,
      <<226, 130, 172>>,
      <<239, 191, 189>>,
      <<97, 32, 73, 78, 32, 40, 195, 159, 41>> }

\* numbers with decimal points: "10", "1.5", "1.", "1.2.3", "1..2", "192.168.0.1"
NumberTexts ==
    { <<49, 48>>,
      <<49, 46, 53>>,
      <<49, 46>>,
      <<49, 46, 50, 46, 51>>,
      <<49, 46, 46, 50>>,
      <<49, 57, 50, 46, 49, 54, 56, 46, 48, 46, 49>> }

\* the longest text of word parts, in parts
MaxParts == 4

\* the texts of up to n word parts
RECURSIVE Words(_)
Words(n) ==
    IF n = 0 THEN { <<>> }
    ELSE Words(n - 1) \cup { w \o p : w \in Words(n - 1), p \in WordParts }

\* the query texts of the model
InListTexts ==
    { b \o k \o g \o <<40>> \o e \o <<41>> :
        b \in InBefore, k \in InKeyword, g \in InGap, e \in InElements }
ParamTexts ==
    { b \o <<36>> \o k \o a : b \in ParamBefore, k \in ParamNumber, a \in ParamAfter }
FingerprintTexts ==
    InListTexts \cup ParamTexts \cup Words(MaxParts) \cup HostileTexts \cup NumberTexts

\* the correlator after process_event returned out, or after it panicked:
\* the panic unwinds through run_raw_mode and ends the program
FingerprintProcessed(c, out) ==
    IF out.panic
    THEN /\ life' = [life EXCEPT ![c] = "aborted"]
         /\ UNCHANGED <<stats, display>>
    ELSE /\ stats' = out.stats
         /\ display' = out.display
         /\ UNCHANGED life

\* ProxyMessage::Event for a connection that runs one query between two resets
FingerprintEvent(c, event) ==
    /\ life[c] = "open"
    /\ event.type = "QueryStart" => Pending(stats, c) = <<>> /\ stats.total_queries = 0
    /\ FingerprintProcessed(c, process_event(stats, c, event, clock))
    /\ UNCHANGED <<clock, strace, top, closed, pvars, rvars>>

NextFingerprint ==
    \/ ConnOpened(1)
    \/ \E sql \in FingerprintTexts : FingerprintEvent(1, QueryStart(sql))
    \/ FingerprintEvent(1, QueryComplete(SqlB, parse_command_tag_rows(SqlB)))
    \/ Reset

SpecFingerprint == InitStats /\ [][NextFingerprint]_vars

\* a query has completed: its text, and the fingerprint it was recorded under
Fingerprinted ==
    /\ display.some
    /\ display.val.kind.type = "Query"
    /\ stats.total_queries = 1
FingerprintIn == display.val.kind.sql
FingerprintOut == CHOOSE fp \in DOMAIN stats.fingerprints : TRUE

\* the text is a digit followed by digits and decimal points only
IsNumberRun(sql) ==
    /\ sql # <<>>
    /\ is_ascii_digit(sql[1])
    /\ \A i \in 1..Len(sql) : is_ascii_digit(sql[i]) \/ sql[i] = 46

\* the decimal points of the text
DecimalPoints(sql) == Cardinality({ i \in 1..Len(sql) : sql[i] = 46 })

\* C36: a numeric literal is replaced by one placeholder that takes its
\* digits and at most one decimal point; after a second decimal point the
\* scan goes on as for any other text, so a text of digits and decimal
\* points is recorded as the single placeholder "$n" exactly when it has at
\* most one decimal point: "1.2.3" is not.
C36_NumberTakesOneDecimalPoint ==
    (Fingerprinted /\ IsNumberRun(FingerprintIn)) =>
        (FingerprintOut = <<36, 110>> <=> DecimalPoints(FingerprintIn) <= 1)

\* C23: fingerprint returns a string for every text, also one with non-ASCII
\* characters outside literals or inside a dollar-quoted body, and one with an
\* unterminated literal: process_event never aborts on a QueryComplete.
C23_FingerprintNeverFails ==
    \A c \in ConnIds : life[c] # "aborted"

\* part occurs in text
Occurs(part, text) ==
    \E i \in 1..(Len(text) - Len(part) + 1) : SubSeq(text, i, i + Len(part) - 1) = part

\* C24: a `$` followed only by digits is a parameter placeholder, and the
\* fingerprint holds it as it was written (`$1` stays `$1`).
C24_PlaceholderVerbatim ==
    (Fingerprinted /\ FingerprintIn \in ParamTexts) =>
        \A k \in ParamNumber :
            Occurs(<<36>> \o k, FingerprintIn) => Occurs(<<36>> \o k, FingerprintOut)

\* the lists whose elements are numeric or string literals, one at least
InLiterals == { e \in InElements : e # <<>> /\ \A i \in 1..Len(e) : e[i] # 120 }

\* the keyword that follows b is at a word boundary: no letter, digit or
\* underscore stands before it
AtWordBoundary(b) ==
    b = <<>> \/ ~(is_ascii_alphanumeric(b[Len(b)]) \/ b[Len(b)] = 95)

\* the fingerprint ends with the collapsed list "in ($...)"
Collapsed(out) ==
    /\ Len(out) >= 9
    /\ SubSeq(out, Len(out) - 8, Len(out)) = <<105, 110>> \o InListToken

\* C25: a list IN (l1, ..., lk) of literals, k >= 1, is collapsed to
\* "in ($...)" whatever k and the letter case of IN, and only when IN is not
\* preceded by a letter, a digit or an underscore.
C25_InListCollapsedAtWordBoundary ==
    Fingerprinted =>
        \A b \in InBefore, k \in InKeyword, g \in InGap, e \in InLiterals :
            FingerprintIn = b \o k \o g \o <<40>> \o e \o <<41>> =>
                Collapsed(FingerprintOut) <=> AtWordBoundary(b)

\* the bytes of the word parts
WordBytes == { 97, 84, 95, 49, 52, 50, 32, 61 }
IsWords(sql) == \A i \in 1..Len(sql) : sql[i] \in WordBytes

\* the digits of a text of word parts as the fingerprint shows them: a digit
\* after a letter, a digit or an underscore stays, a digit elsewhere starts a
\* number that becomes "$n"; letters are lowercased
RECURSIVE DigitsReplaced(_, _, _)
DigitsReplaced(sql, i, number) ==
    IF i > Len(sql) THEN <<>>
    ELSE IF ~is_ascii_digit(sql[i])
         THEN <<IF sql[i] = 84 THEN 116 ELSE sql[i]>> \o DigitsReplaced(sql, i + 1, FALSE)
    ELSE IF number THEN DigitsReplaced(sql, i + 1, TRUE)
    ELSE IF i > 1 /\ (is_ascii_alphanumeric(sql[i - 1]) \/ sql[i - 1] = 95)
         THEN <<sql[i]>> \o DigitsReplaced(sql, i + 1, FALSE)
    ELSE <<36, 110>> \o DigitsReplaced(sql, i + 1, TRUE)

\* C26: a digit that follows a letter, a digit or an underscore is emitted
\* unchanged (table1, col2), a digit that does not starts a numeric literal
\* replaced by "$n", and no fingerprint holds an uppercase ASCII letter.
C26_DigitsInNamesKept ==
    Fingerprinted =>
        /\ \A i \in 1..Len(FingerprintOut) : ~(FingerprintOut[i] \in 65..90)
        /\ IsWords(FingerprintIn) => FingerprintOut = DigitsReplaced(FingerprintIn, 1, FALSE)

\* a name with digits and a number were fingerprinted: "T1 42" -> "t1 $n"
C26_Witness ==
    /\ Fingerprinted
    /\ FingerprintIn = <<84, 49, 32, 52, 50>>
    /\ FingerprintOut = <<116, 49, 32, 36, 110>>

\* sql holds no literal: no quote, no `$` that opens a dollar-quoted string,
\* no digit that starts a number (the digits of a placeholder follow a `$`)
NoLiterals(sql) ==
    \A i \in 1..Len(sql) :
        /\ sql[i] # 39
        /\ sql[i] = 36 => (i < Len(sql) /\ is_ascii_digit(sql[i + 1])) \/ i = Len(sql)
        /\ is_ascii_digit(sql[i]) =>
               i > 1 /\ (is_ascii_alphanumeric(sql[i - 1]) \/ sql[i - 1] \in {95, 36})

\* C27: the fingerprint of a text without literals is its own fingerprint.
C27_FingerprintIdempotent ==
    (Fingerprinted /\ NoLiterals(FingerprintIn)) =>
        fingerprint(FingerprintOut) = Ok(FingerprintOut)

----------------------------------------------------------------------------
(* SpecRelay: one connection through run_proxy, handle_connection, the two *)
(* relay tasks and the client writer task.  A step is what a task does     *)
(* from one await to the next; the parser lock is held inside a step only. *)

\* the SQL of the client's simple query and the command tag of the server
RelaySql == <<b_S>>
RelayTag == <<b_T>>

\* a startup packet of 9 bytes that carries the SSLRequest code
OverlongSslPacket == to_be_bytes(9) \o to_be_bytes(SSL_REQUEST_CODE) \o <<NUL>>

\* what a client sends: its packets, and which of them is an SSLRequest
SslThenQuery ==
    [packets |-> << make_startup_message(SSL_REQUEST_CODE),
                    make_startup_message(STARTUP_VERSION_3_0),
                    make_query_message(RelaySql) >>,
     ssl |-> {1}]

OverlongThenStartup ==
    [packets |-> << OverlongSslPacket, make_startup_message(STARTUP_VERSION_3_0) >>,
     ssl |-> {}]

ClientScripts == {SslThenQuery, OverlongThenStartup}

RECURSIVE Flatten(_)
\* the bytes of a sequence of packets
Flatten(packets) ==
    IF packets = <<>> THEN <<>> ELSE Head(packets) \o Flatten(Tail(packets))

\* the stream offsets at which the packets end, after offset base
PacketEnds(packets, base) ==
    { base + Len(Flatten(SubSeq(packets, 1, k))) : k \in 1..Len(packets) }

\* the stream offsets of the bytes of the packets in ssl
SslOffsets(script) ==
    UNION { (Len(Flatten(SubSeq(script.packets, 1, k - 1))) + 1)
              .. Len(Flatten(SubSeq(script.packets, 1, k))) : k \in script.ssl }

\* the client's socket before the relay has read from it; a read may end at
\* the offsets in cuts
ClientSocket(script, cuts) ==
    [out |-> Flatten(script.packets), ssl |-> SslOffsets(script), cuts |-> cuts,
     rd |-> 0, wr |-> <<>>]

\* the sequence a, a+1, .., b
RangeSeq(a, b) == [i \in 1..(b - a + 1) |-> a + i - 1]

\* a task that has returned or was dropped by abort()
Ended(task) == task.pc \in {"done", "cancelled"}

\* Sender::send on a channel with room
send(ch, v) == Append(ch, v)

\* mutant of recv: the newest message is received
recv_newest(ch) == [val |-> ch[Len(ch)], rest |-> SubSeq(ch, 1, Len(ch) - 1)]

\* Receiver::recv on a channel that holds a message
recv(ch) == [val |-> Head(ch), rest |-> Tail(ch)]

\* the room left in the ProxyMessage channel
EventsRoom == Len(eventsChan.queue) + eventsChan.backlog < EVENTS_CAPACITY

\* events_tx.send(msg).await, once there is room
EventsSent(msg) == [eventsChan EXCEPT !.queue = send(@, msg)]

RECURSIVE parse_loop(_, _, _, _)
\* mutant of parse_turn: the bytes of an incomplete frame are not kept for
\* the next read
parse_turn_drops_leftover(r, parse_buf, direction, collected) ==
    IF r.some
    THEN parse_loop(r.parser, SubSeq(parse_buf, r.consumed + 1, Len(parse_buf)),
                    direction, Append(collected, r.event))
    ELSE [parser |-> r.parser, parse_buf |-> <<>>, events |-> collected]

\* one turn of the loop on r, the result of try_parse
parse_turn(r, parse_buf, direction, collected) ==
    IF r.some
    THEN parse_loop(r.parser, SubSeq(parse_buf, r.consumed + 1, Len(parse_buf)),
                    direction, Append(collected, r.event))
    ELSE [parser |-> r.parser, parse_buf |-> parse_buf, events |-> collected]

\* while let Some((event, consumed)) = parser.try_parse(&parse_buf, direction)
parse_loop(p, parse_buf, direction, collected) ==
    parse_turn(try_parse(p, parse_buf, direction), parse_buf, direction, collected)

\* a PostgreSQL server without TLS on the bytes it has not consumed yet, its
\* reply a sequence of packets:
\* 'N' to an SSLRequest, ReadyForQuery to a StartupMessage v3.0,
\* CommandComplete and ReadyForQuery to a simple query, close on Terminate
\* and on what it cannot read
server_reply(phase, buf) ==
    LET wait == [ready |-> FALSE]
        close == [ready |-> TRUE, consumed |-> Len(buf), reply |-> <<>>,
                  phase |-> phase, close |-> TRUE]
    IN  IF phase = "startup"
        THEN IF Len(buf) < 8 THEN wait
             ELSE LET length == from_be_bytes(buf[1], buf[2], buf[3], buf[4])
                      version == from_be_bytes(buf[5], buf[6], buf[7], buf[8])
                  IN  IF ~(length >= 8 /\ length <= 10000) THEN close
                      ELSE IF Len(buf) < length THEN wait
                      ELSE IF version = SSL_REQUEST_CODE /\ length = 8
                      THEN [ready |-> TRUE, consumed |-> length, reply |-> << <<b_N>> >>,
                            phase |-> "startup", close |-> FALSE]
                      ELSE IF version = STARTUP_VERSION_3_0
                      THEN [ready |-> TRUE, consumed |-> length,
                            reply |-> << make_ready_for_query(b_I) >>,
                            phase |-> "ready", close |-> FALSE]
                      ELSE close
        ELSE IF Len(buf) < 5 THEN wait
             ELSE LET total_len == 1 + from_be_bytes(buf[2], buf[3], buf[4], buf[5])
                  IN  IF total_len < 5 THEN close
                      ELSE IF Len(buf) < total_len THEN wait
                      ELSE IF buf[1] = b_Q
                      THEN [ready |-> TRUE, consumed |-> total_len,
                            reply |-> << make_command_complete(RelayTag),
                                         make_ready_for_query(b_I) >>,
                            phase |-> "ready", close |-> FALSE]
                      ELSE IF buf[1] = b_X THEN close
                      ELSE [ready |-> TRUE, consumed |-> total_len, reply |-> <<>>,
                            phase |-> "ready", close |-> FALSE]

\* the bytes written upstream that the server has not consumed
ServerPending == SubSeq(upstreamSock.wr, upstreamSock.srvpos + 1, Len(upstreamSock.wr))

\* a connection was accepted and got its id; the client sends an SSLRequest,
\* a StartupMessage and a query, and a read of the relay returns whole packets; the sink does not take messages during the run, and the
\* event channel is empty or holds EVENTS_CAPACITY - 1 messages of other
\* connections
InitRelay ==
    /\ StatsIdle
    /\ ParserIdle
    /\ clientSock = ClientSocket(SslThenQuery, PacketEnds(SslThenQuery.packets, 0))
    /\ upstreamSock = [wr |-> <<>>, idx |-> <<>>, srvpos |-> 0, srvphase |-> "startup",
                       out |-> <<>>, cuts |-> {}, rd |-> 0, eof |-> FALSE]
    /\ frontend = [pc |-> "unspawned", n |-> 0, parse_buf |-> <<>>, off |-> 0,
                   intercept_response |-> None, events |-> <<>>]
    /\ backend = [pc |-> "unspawned", parse_buf |-> <<>>, events |-> <<>>, chunks |-> 0]
    /\ clientWriter = [pc |-> "unspawned", data |-> [src |-> 0, bytes |-> <<>>]]
    /\ interceptChan = <<>>
    /\ clientWriteChan = <<>>
    /\ \E backlog \in {0, EVENTS_CAPACITY - 1} :
         eventsChan = [queue |-> <<>>, backlog |-> backlog]
    /\ connTask = [pc |-> "accepted", aborted |-> FALSE]

\* run_proxy: tx.send(ProxyMessage::ConnectionOpened { conn_id }).await
SendConnectionOpened ==
    /\ connTask.pc = "accepted"
    /\ EventsRoom
    /\ eventsChan' = EventsSent(ProxyConnectionOpened(CONN_ID))
    /\ connTask' = [connTask EXCEPT !.pc = "connecting"]
    /\ UNCHANGED <<pvars, svars, clientSock, upstreamSock, frontend, backend,
                   clientWriter, interceptChan, clientWriteChan>>

\* handle_connection: the upstream connect succeeds and the three tasks are spawned
ConnectOk ==
    /\ connTask.pc = "connecting"
    /\ connTask' = [connTask EXCEPT !.pc = "select"]
    /\ frontend' = [frontend EXCEPT !.pc = "read"]
    /\ backend' = [backend EXCEPT !.pc = "read"]
    /\ clientWriter' = [clientWriter EXCEPT !.pc = "select"]
    /\ UNCHANGED <<pvars, svars, clientSock, upstreamSock, interceptChan,
                   clientWriteChan, eventsChan>>

\* mutant of ConnectFailed: the connection task ends without its
\* ConnectionClosed
ConnectFailed_without_closed ==
    /\ connTask.pc = "connecting"
    /\ connTask' = [connTask EXCEPT !.pc = "closed"]
    /\ UNCHANGED <<pvars, svars, clientSock, upstreamSock, frontend, backend,
                   clientWriter, interceptChan, clientWriteChan, eventsChan>>

\* handle_connection: the upstream connect fails or times out
ConnectFailed ==
    /\ connTask.pc = "connecting"
    /\ connTask' = [connTask EXCEPT !.pc = "closing"]
    /\ UNCHANGED <<pvars, svars, clientSock, upstreamSock, frontend, backend,
                   clientWriter, interceptChan, clientWriteChan, eventsChan>>

\* relay_frontend: the task after handle_startup_intercept returned r
FrontendIntercepted(n, parse_buf, r) ==
    /\ parser' = r.parser
    /\ frontend' = [frontend EXCEPT
                      !.pc = IF r.some THEN "intercept" ELSE "forward",
                      !.n = n,
                      !.parse_buf = parse_buf,
                      !.intercept_response = IF r.some THEN Some(r.val) ELSE None]

\* relay_frontend: parse_buf.extend_from_slice(&buf[..n]) and the call of
\* handle_startup_intercept under the lock
FrontendExtended(n, parse_buf) ==
    FrontendIntercepted(n, parse_buf, handle_startup_intercept(parser, parse_buf, Frontend))

\* relay_frontend: reader.read returns the n bytes up to a cut, they are
\* appended to parse_buf and handle_startup_intercept is called under the lock
FrontendRead(n) ==
    /\ frontend.pc = "read"
    /\ clientSock.rd + n \in clientSock.cuts
    /\ FrontendExtended(n, frontend.parse_buf
                           \o SubSeq(clientSock.out, clientSock.rd + 1, clientSock.rd + n))
    /\ clientSock' = [clientSock EXCEPT !.rd = @ + n]
    /\ UNCHANGED <<pobs, svars, upstreamSock, backend, clientWriter, interceptChan,
                   clientWriteChan, eventsChan, connTask>>

\* relay_frontend: reader.read returns 0 after the client's last byte
FrontendReadEof ==
    /\ frontend.pc = "read"
    /\ clientSock.rd = Len(clientSock.out)
    /\ frontend' = [frontend EXCEPT !.pc = "done"]
    /\ UNCHANGED <<pvars, svars, clientSock, upstreamSock, backend, clientWriter,
                   interceptChan, clientWriteChan, eventsChan, connTask>>

\* relay_frontend: intercept_tx.send(response).await.ok()
FrontendInterceptSend ==
    /\ frontend.pc = "intercept"
    /\ Ended(clientWriter) \/ Len(interceptChan) < INTERCEPT_CAPACITY
    /\ interceptChan' = IF Ended(clientWriter) THEN interceptChan
                        ELSE send(interceptChan, frontend.intercept_response.val)
    /\ frontend' = [frontend EXCEPT !.pc = "forward"]
    /\ UNCHANGED <<pvars, svars, clientSock, upstreamSock, backend, clientWriter,
                   clientWriteChan, eventsChan, connTask>>

\* relay_frontend: after an interception split_to(length) when the buffer
\* holds that much and write what is left of parse_buf upstream; otherwise
\* write the bytes just read
FrontendForward ==
    /\ frontend.pc = "forward"
    /\ LET parse_buf == frontend.parse_buf
           length == IF Len(parse_buf) >= 4
                     THEN from_be_bytes(parse_buf[1], parse_buf[2], parse_buf[3], parse_buf[4])
                     ELSE 8
           cut == IF Len(parse_buf) >= length THEN length ELSE 0
           left == SubSeq(parse_buf, cut + 1, Len(parse_buf))
       IN  IF frontend.intercept_response.some
           THEN /\ frontend' = [frontend EXCEPT !.pc = "parse", !.n = 0,
                                  !.parse_buf = left, !.off = @ + cut,
                                  !.intercept_response = None]
                /\ upstreamSock' = [upstreamSock EXCEPT
                                      !.wr = @ \o left,
                                      !.idx = @ \o RangeSeq(frontend.off + cut + 1,
                                                            clientSock.rd)]
           ELSE /\ frontend' = [frontend EXCEPT !.pc = "parse", !.n = 0]
                /\ upstreamSock' = [upstreamSock EXCEPT
                                      !.wr = @ \o SubSeq(clientSock.out,
                                                         clientSock.rd - frontend.n + 1,
                                                         clientSock.rd),
                                      !.idx = @ \o RangeSeq(clientSock.rd - frontend.n + 1,
                                                            clientSock.rd)]
    /\ UNCHANGED <<pvars, svars, clientSock, backend, clientWriter, interceptChan,
                   clientWriteChan, eventsChan, connTask>>

\* relay_frontend: the task after the parse loop returned r
FrontendParsed(r) ==
    /\ parser' = r.parser
    /\ frontend' = [frontend EXCEPT
                      !.pc = IF r.events = <<>> THEN "read" ELSE "emit",
                      !.parse_buf = r.parse_buf,
                      !.off = @ + Len(frontend.parse_buf) - Len(r.parse_buf),
                      !.events = r.events]

\* relay_frontend: the parse loop under the lock
FrontendParse ==
    /\ frontend.pc = "parse"
    /\ FrontendParsed(parse_loop(parser, frontend.parse_buf, Frontend, <<>>))
    /\ UNCHANGED <<pobs, svars, clientSock, upstreamSock, backend, clientWriter,
                   interceptChan, clientWriteChan, eventsChan, connTask>>

\* relay_frontend: events_tx.send(ProxyMessage::Event { conn_id, event }).await
FrontendEmit ==
    /\ frontend.pc = "emit"
    /\ EventsRoom
    /\ eventsChan' = EventsSent(ProxyEvent(CONN_ID, Head(frontend.events)))
    /\ frontend' = [frontend EXCEPT
                      !.pc = IF Tail(frontend.events) = <<>> THEN "read" ELSE "emit",
                      !.events = Tail(@)]
    /\ UNCHANGED <<pvars, svars, clientSock, upstreamSock, backend, clientWriter,
                   interceptChan, clientWriteChan, connTask>>

\* relay_backend: reader.read returns the n bytes up to a cut, they are sent to the client
\* writer as one Bytes and appended to parse_buf; the loop breaks when the
\* receiver is gone
BackendRead(n) ==
    /\ backend.pc = "read"
    /\ upstreamSock.rd + n \in upstreamSock.cuts
    /\ Ended(clientWriter) \/ Len(clientWriteChan) < CLIENT_WRITE_CAPACITY
    /\ LET chunk == SubSeq(upstreamSock.out, upstreamSock.rd + 1, upstreamSock.rd + n)
       IN  IF Ended(clientWriter)
           THEN /\ backend' = [backend EXCEPT !.pc = "done"]
                /\ UNCHANGED clientWriteChan
           ELSE /\ backend' = [backend EXCEPT !.pc = "parse",
                                              !.parse_buf = @ \o chunk,
                                              !.chunks = @ + 1]
                /\ clientWriteChan' = send(clientWriteChan,
                                           [src |-> backend.chunks + 1, bytes |-> chunk])
    /\ upstreamSock' = [upstreamSock EXCEPT !.rd = @ + n]
    /\ UNCHANGED <<pvars, svars, clientSock, frontend, clientWriter, interceptChan,
                   eventsChan, connTask>>

\* relay_backend: reader.read returns 0 after the server's last byte
BackendReadEof ==
    /\ backend.pc = "read"
    /\ upstreamSock.eof
    /\ upstreamSock.rd = Len(upstreamSock.out)
    /\ backend' = [backend EXCEPT !.pc = "done"]
    /\ UNCHANGED <<pvars, svars, clientSock, upstreamSock, frontend, clientWriter,
                   interceptChan, clientWriteChan, eventsChan, connTask>>

\* relay_backend: the task after the parse loop returned r
BackendParsed(r) ==
    /\ parser' = r.parser
    /\ backend' = [backend EXCEPT
                     !.pc = IF r.events = <<>> THEN "read" ELSE "emit",
                     !.parse_buf = r.parse_buf,
                     !.events = r.events]

\* relay_backend: the parse loop under the lock
BackendParse ==
    /\ backend.pc = "parse"
    /\ BackendParsed(parse_loop(parser, backend.parse_buf, Backend, <<>>))
    /\ UNCHANGED <<pobs, svars, clientSock, upstreamSock, frontend, clientWriter,
                   interceptChan, clientWriteChan, eventsChan, connTask>>

\* relay_backend: events_tx.send(ProxyMessage::Event { conn_id, event }).await
BackendEmit ==
    /\ backend.pc = "emit"
    /\ EventsRoom
    /\ eventsChan' = EventsSent(ProxyEvent(CONN_ID, Head(backend.events)))
    /\ backend' = [backend EXCEPT
                     !.pc = IF Tail(backend.events) = <<>> THEN "read" ELSE "emit",
                     !.events = Tail(@)]
    /\ UNCHANGED <<pvars, svars, clientSock, upstreamSock, frontend, clientWriter,
                   interceptChan, clientWriteChan, connTask>>

\* client writer task: the select! branch Some(data) = client_write_rx.recv()
WriterRecvClientWrite ==
    /\ clientWriter.pc = "select"
    /\ clientWriteChan # <<>>
    /\ LET r == recv(clientWriteChan)
       IN  /\ clientWriter' = [pc |-> "write", data |-> r.val]
           /\ clientWriteChan' = r.rest
    /\ UNCHANGED <<pvars, svars, clientSock, upstreamSock, frontend, backend,
                   interceptChan, eventsChan, connTask>>

\* client writer task: the select! branch Some(data) = intercept_rx.recv()
WriterRecvIntercept ==
    /\ clientWriter.pc = "select"
    /\ interceptChan # <<>>
    /\ LET r == recv(interceptChan)
       IN  /\ clientWriter' = [pc |-> "write", data |-> [src |-> 0, bytes |-> r.val]]
           /\ interceptChan' = r.rest
    /\ UNCHANGED <<pvars, svars, clientSock, upstreamSock, frontend, backend,
                   clientWriteChan, eventsChan, connTask>>

\* client writer task: the else branch of select!, both channels closed and empty
WriterBreak ==
    /\ clientWriter.pc = "select"
    /\ clientWriteChan = <<>> /\ Ended(backend)
    /\ interceptChan = <<>> /\ Ended(frontend)
    /\ clientWriter' = [clientWriter EXCEPT !.pc = "done"]
    /\ UNCHANGED <<pvars, svars, clientSock, upstreamSock, frontend, backend,
                   interceptChan, clientWriteChan, eventsChan, connTask>>

\* client writer task: writer.write_all(&data) puts the next k bytes of data
\* on the client's socket
WriterWrite(k) ==
    /\ clientWriter.pc = "write"
    /\ k \in 1..Len(clientWriter.data.bytes)
    /\ LET data == clientWriter.data
           left == SubSeq(data.bytes, k + 1, Len(data.bytes))
       IN  /\ clientSock' = [clientSock EXCEPT
                               !.wr = @ \o [i \in 1..k |->
                                              [b |-> data.bytes[i], src |-> data.src]]]
           /\ clientWriter' = IF left = <<>>
                              THEN [pc |-> "select", data |-> [src |-> 0, bytes |-> <<>>]]
                              ELSE [pc |-> "write", data |-> [data EXCEPT !.bytes = left]]
    /\ UNCHANGED <<pvars, svars, upstreamSock, frontend, backend, interceptChan,
                   clientWriteChan, eventsChan, connTask>>

\* a task suspended in an await that cannot complete now
FrontendParked ==
    \/ frontend.pc = "intercept" /\ ~Ended(clientWriter)
                                 /\ Len(interceptChan) >= INTERCEPT_CAPACITY
    \/ frontend.pc = "emit" /\ ~EventsRoom

BackendParked ==
    \/ backend.pc = "read" /\ upstreamSock.rd = Len(upstreamSock.out)
                           /\ ~upstreamSock.eof
    \/ backend.pc = "read" /\ upstreamSock.rd < Len(upstreamSock.out)
                           /\ ~Ended(clientWriter)
                           /\ Len(clientWriteChan) >= CLIENT_WRITE_CAPACITY
    \/ backend.pc = "emit" /\ ~EventsRoom

WriterParked ==
    /\ clientWriter.pc = "select"
    /\ clientWriteChan = <<>>
    /\ interceptChan = <<>>
    /\ ~(Ended(backend) /\ Ended(frontend))

\* JoinHandle::abort on a task: a suspended task is dropped, a task that is
\* running goes on to an await where it is dropped
abort(task, parked) ==
    IF ~Ended(task) /\ parked THEN [task EXCEPT !.pc = "cancelled"] ELSE task

\* mutant of Teardown: handle_connection returns without abort(), the
\* handles are dropped and the tasks detached
Teardown_without_abort ==
    /\ connTask.pc = "select"
    /\ frontend.pc = "done" \/ backend.pc = "done"
    /\ connTask' = [pc |-> "closing", aborted |-> FALSE]
    /\ UNCHANGED <<pvars, svars, clientSock, upstreamSock, frontend, backend,
                   clientWriter, interceptChan, clientWriteChan, eventsChan>>

\* handle_connection: select! on the two relay handles, then abort() of the
\* three tasks
Teardown ==
    /\ connTask.pc = "select"
    /\ frontend.pc = "done" \/ backend.pc = "done"
    /\ connTask' = [pc |-> "closing", aborted |-> TRUE]
    /\ frontend' = abort(frontend, FrontendParked)
    /\ backend' = abort(backend, BackendParked)
    /\ clientWriter' = abort(clientWriter, WriterParked)
    /\ UNCHANGED <<pvars, svars, clientSock, upstreamSock, interceptChan,
                   clientWriteChan, eventsChan>>

\* an aborted task that was running is dropped at one of its awaits
CancelFrontend ==
    /\ connTask.aborted
    /\ frontend.pc \notin {"done", "cancelled"}
    /\ frontend' = [frontend EXCEPT !.pc = "cancelled"]
    /\ UNCHANGED <<pvars, svars, clientSock, upstreamSock, backend, clientWriter,
                   interceptChan, clientWriteChan, eventsChan, connTask>>

CancelBackend ==
    /\ connTask.aborted
    /\ backend.pc \notin {"done", "cancelled"}
    /\ backend' = [backend EXCEPT !.pc = "cancelled"]
    /\ UNCHANGED <<pvars, svars, clientSock, upstreamSock, frontend, clientWriter,
                   interceptChan, clientWriteChan, eventsChan, connTask>>

CancelWriter ==
    /\ connTask.aborted
    /\ clientWriter.pc \notin {"done", "cancelled"}
    /\ clientWriter' = [clientWriter EXCEPT !.pc = "cancelled"]
    /\ UNCHANGED <<pvars, svars, clientSock, upstreamSock, frontend, backend,
                   interceptChan, clientWriteChan, eventsChan, connTask>>

\* run_proxy: tx.send(ProxyMessage::ConnectionClosed { conn_id }).await
SendConnectionClosed ==
    /\ connTask.pc = "closing"
    /\ EventsRoom
    /\ eventsChan' = EventsSent(ProxyConnectionClosed(CONN_ID))
    /\ connTask' = [connTask EXCEPT !.pc = "closed"]
    /\ UNCHANGED <<pvars, svars, clientSock, upstreamSock, frontend, backend,
                   clientWriter, interceptChan, clientWriteChan>>

\* the server consumes one packet and answers
ServerStep ==
    /\ connTask.pc \in {"select", "closing", "closed"}
    /\ frontend.pc # "unspawned"
    /\ ~upstreamSock.eof
    /\ LET r == server_reply(upstreamSock.srvphase, ServerPending)
       IN  /\ r.ready
           /\ upstreamSock' = [upstreamSock EXCEPT
                                 !.srvpos = @ + r.consumed,
                                 !.srvphase = r.phase,
                                 !.out = @ \o Flatten(r.reply),
                                 !.cuts = @ \cup PacketEnds(r.reply, Len(upstreamSock.out)),
                                 !.eof = r.close]
    /\ UNCHANGED <<pvars, svars, clientSock, frontend, backend, clientWriter,
                   interceptChan, clientWriteChan, eventsChan, connTask>>

\* the server closes the connection when no complete packet waits for it: it
\* saw the end of the stream, or it shuts down
ServerClose ==
    /\ frontend.pc # "unspawned"
    /\ ~upstreamSock.eof
    /\ ~server_reply(upstreamSock.srvphase, ServerPending).ready
    /\ upstreamSock' = [upstreamSock EXCEPT !.eof = TRUE]
    /\ UNCHANGED <<pvars, svars, clientSock, frontend, backend, clientWriter,
                   interceptChan, clientWriteChan, eventsChan, connTask>>

NextRelay ==
    \/ SendConnectionOpened
    \/ ConnectOk
    \/ ConnectFailed
    \/ \E n \in 1..Len(clientSock.out) : FrontendRead(n)
    \/ FrontendReadEof
    \/ FrontendInterceptSend
    \/ FrontendForward
    \/ FrontendParse
    \/ FrontendEmit
    \/ \E n \in 1..Len(upstreamSock.out) : BackendRead(n)
    \/ BackendReadEof
    \/ BackendParse
    \/ BackendEmit
    \/ WriterRecvClientWrite
    \/ WriterRecvIntercept
    \/ WriterBreak
    \/ \E k \in 1..Len(clientWriter.data.bytes) : WriterWrite(k)
    \/ Teardown
    \/ CancelFrontend
    \/ CancelBackend
    \/ CancelWriter
    \/ SendConnectionClosed
    \/ ServerStep
    \/ ServerClose

SpecRelay == InitRelay /\ [][NextRelay]_vars

\* the runtime polls handle_connection when a relay handle completes, and
\* drops an aborted task the next time it is scheduled
SpecRelayFair ==
    /\ SpecRelay
    /\ WF_vars(Teardown)
    /\ WF_vars(CancelFrontend)
    /\ WF_vars(CancelBackend)
    /\ WF_vars(CancelWriter)

\* C29: when relay_frontend or relay_backend has finished, handle_connection
\* aborts the other relay and the client writer, and eventually none of the
\* three tasks of the connection is running.
C29_NoTaskOutlivesConnection ==
    (connTask.pc = "select" /\ (frontend.pc = "done" \/ backend.pc = "done"))
        ~> (Ended(frontend) /\ Ended(backend) /\ Ended(clientWriter))

\* after the teardown the three tasks have ended, the other relay and the
\* writer by abort()
C29_Witness ==
    /\ connTask.aborted
    /\ Ended(frontend) /\ Ended(backend) /\ Ended(clientWriter)
    /\ clientWriter.pc = "cancelled"
    /\ frontend.pc = "cancelled" \/ backend.pc = "cancelled"

\* the same connection with a server that does not answer and a client whose
\* bytes may be split across reads at every offset
InitFrontend ==
    /\ StatsIdle
    /\ ParserIdle
    /\ \E script \in ClientScripts :
         clientSock = ClientSocket(script, 1..Len(Flatten(script.packets)))
    /\ upstreamSock = [wr |-> <<>>, idx |-> <<>>, srvpos |-> 0, srvphase |-> "startup",
                       out |-> <<>>, cuts |-> {}, rd |-> 0, eof |-> FALSE]
    /\ frontend = [pc |-> "unspawned", n |-> 0, parse_buf |-> <<>>, off |-> 0,
                   intercept_response |-> None, events |-> <<>>]
    /\ backend = [pc |-> "unspawned", parse_buf |-> <<>>, events |-> <<>>, chunks |-> 0]
    /\ clientWriter = [pc |-> "unspawned", data |-> [src |-> 0, bytes |-> <<>>]]
    /\ interceptChan = <<>>
    /\ clientWriteChan = <<>>
    /\ eventsChan = [queue |-> <<>>, backlog |-> 0]
    /\ connTask = [pc |-> "accepted", aborted |-> FALSE]

NextFrontend ==
    \/ SendConnectionOpened
    \/ ConnectOk
    \/ \E n \in 1..Len(clientSock.out) : FrontendRead(n)
    \/ FrontendReadEof
    \/ FrontendInterceptSend
    \/ FrontendForward
    \/ FrontendParse
    \/ FrontendEmit
    \/ WriterRecvIntercept
    \/ \E k \in 1..Len(clientWriter.data.bytes) : WriterWrite(k)

SpecFrontend == InitFrontend /\ [][NextFrontend]_vars

----------------------------------------------------------------------------
(* SpecLock: the connection of SpecRelay with the steps of the two relay    *)
(* tasks around the parser's Mutex taken one by one: the task reaches       *)
(* parser.lock(), gets the guard, calls the parser and drops the guard at   *)
(* the end of the block.  pc "lock_intercept" and "parse" are the calls of  *)
(* lock() that have not returned, "hold_intercept" and "hold_parse" the     *)
(* blocks with the guard.                                                   *)

\* the task has a MutexGuard of the parser
Holds(task) == task.pc \in {"hold_intercept", "hold_parse"}

\* mutant of MutexFree: lock() returns a guard while another guard lives
MutexFree_unguarded == TRUE

\* std::sync::Mutex: lock() returns when no guard lives
MutexFree == ~Holds(frontend) /\ ~Holds(backend)

\* relay_frontend: reader.read returns the n bytes up to a cut and they are
\* appended to parse_buf
FrontendReadBytes(n) ==
    /\ frontend.pc = "read"
    /\ clientSock.rd + n \in clientSock.cuts
    /\ frontend' = [frontend EXCEPT
                      !.pc = "lock_intercept",
                      !.n = n,
                      !.parse_buf = @ \o SubSeq(clientSock.out, clientSock.rd + 1,
                                                clientSock.rd + n)]
    /\ clientSock' = [clientSock EXCEPT !.rd = @ + n]
    /\ UNCHANGED <<pvars, svars, upstreamSock, backend, clientWriter, interceptChan,
                   clientWriteChan, eventsChan, connTask>>

\* relay_frontend: parser.lock().unwrap() of the intercept block returns
FrontendLockIntercept ==
    /\ frontend.pc = "lock_intercept"
    /\ MutexFree
    /\ frontend' = [frontend EXCEPT !.pc = "hold_intercept"]
    /\ UNCHANGED <<pvars, svars, clientSock, upstreamSock, backend, clientWriter,
                   interceptChan, clientWriteChan, eventsChan, connTask>>

\* relay_frontend: handle_startup_intercept with the guard, dropped at the
\* end of the block
FrontendInterceptCall ==
    /\ frontend.pc = "hold_intercept"
    /\ FrontendExtended(frontend.n, frontend.parse_buf)
    /\ UNCHANGED <<pobs, svars, clientSock, upstreamSock, backend, clientWriter,
                   interceptChan, clientWriteChan, eventsChan, connTask>>

\* relay_frontend: parser.lock().unwrap() of the parse block returns
FrontendLockParse ==
    /\ frontend.pc = "parse"
    /\ MutexFree
    /\ frontend' = [frontend EXCEPT !.pc = "hold_parse"]
    /\ UNCHANGED <<pvars, svars, clientSock, upstreamSock, backend, clientWriter,
                   interceptChan, clientWriteChan, eventsChan, connTask>>

\* relay_frontend: the parse loop with the guard, dropped at the end of the
\* block
FrontendParseCall ==
    /\ frontend.pc = "hold_parse"
    /\ FrontendParsed(parse_loop(parser, frontend.parse_buf, Frontend, <<>>))
    /\ UNCHANGED <<pobs, svars, clientSock, upstreamSock, backend, clientWriter,
                   interceptChan, clientWriteChan, eventsChan, connTask>>

\* relay_backend: parser.lock().unwrap() returns
BackendLockParse ==
    /\ backend.pc = "parse"
    /\ MutexFree
    /\ backend' = [backend EXCEPT !.pc = "hold_parse"]
    /\ UNCHANGED <<pvars, svars, clientSock, upstreamSock, frontend, clientWriter,
                   interceptChan, clientWriteChan, eventsChan, connTask>>

\* relay_backend: the parse loop with the guard, dropped at the end of the
\* block
BackendParseCall ==
    /\ backend.pc = "hold_parse"
    /\ BackendParsed(parse_loop(parser, backend.parse_buf, Backend, <<>>))
    /\ UNCHANGED <<pobs, svars, clientSock, upstreamSock, frontend, clientWriter,
                   interceptChan, clientWriteChan, eventsChan, connTask>>

\* the task is in a block without an await: abort() cannot drop it there
InSyncBlock(task) == task.pc \in {"lock_intercept", "hold_intercept", "hold_parse"}

NextLock ==
    \/ SendConnectionOpened
    \/ ConnectOk
    \/ ConnectFailed
    \/ \E n \in 1..Len(clientSock.out) : FrontendReadBytes(n)
    \/ FrontendLockIntercept
    \/ FrontendInterceptCall
    \/ FrontendReadEof
    \/ FrontendInterceptSend
    \/ FrontendForward
    \/ FrontendLockParse
    \/ FrontendParseCall
    \/ FrontendEmit
    \/ \E n \in 1..Len(upstreamSock.out) : BackendRead(n)
    \/ BackendReadEof
    \/ BackendLockParse
    \/ BackendParseCall
    \/ BackendEmit
    \/ WriterRecvClientWrite
    \/ WriterRecvIntercept
    \/ WriterBreak
    \/ \E k \in 1..Len(clientWriter.data.bytes) : WriterWrite(k)
    \/ Teardown
    \/ CancelFrontend /\ ~InSyncBlock(frontend)
    \/ CancelBackend /\ ~InSyncBlock(backend)
    \/ CancelWriter
    \/ SendConnectionClosed
    \/ ServerStep
    \/ ServerClose

SpecLock == InitRelay /\ [][NextLock]_vars

\* C28: relay_frontend and relay_backend never hold the parser's lock
\* together, the parser changes only in a step of the task that holds the
\* lock, and the step a task takes with the lock is the one that releases
\* it: no socket is read or written and no channel is sent to with the lock.
C28_NoAwaitUnderLock ==
    [][ /\ ~(Holds(frontend') /\ Holds(backend'))
        /\ parser' # parser =>
               \/ Holds(frontend) /\ ~Holds(frontend')
               \/ Holds(backend) /\ ~Holds(backend')
        /\ (Holds(frontend) /\ frontend' # frontend) \/ (Holds(backend) /\ backend' # backend) =>
               /\ Holds(frontend) => ~Holds(frontend') /\ frontend'.pc # "cancelled"
               /\ Holds(backend) => ~Holds(backend') /\ backend'.pc # "cancelled"
               /\ UNCHANGED <<clientSock, upstreamSock, interceptChan, clientWriteChan,
                              eventsChan>> ]_vars

\* relay_frontend holds the lock while relay_backend waits for it with the
\* server's answer in its buffer
C28_Witness ==
    /\ Holds(frontend)
    /\ backend.pc = "parse"
    /\ backend.parse_buf # <<>>

\* relay_backend has parsed a ReadyForQuery: its event waits in the task or is
\* in the event channel
ReadyForQueryParsed ==
    \/ \E i \in 1..Len(backend.events) : backend.events[i].type = "ConnectionReady"
    \/ \E i \in 1..Len(eventsChan.queue) :
         /\ eventsChan.queue[i].type = "Event"
         /\ eventsChan.queue[i].event.type = "ConnectionReady"

\* C15: once relay_backend has parsed the server's first ReadyForQuery (the
\* server sends it in answer to the forwarded StartupMessage v3.0), the
\* parser phase is Ready, whatever the interleaving of the two relay tasks.
C15_ReadyAfterFirstReadyForQuery ==
    ReadyForQueryParsed => parser.phase = Ready

\* the positions of the messages of a type in the event channel
MessagesOf(type) == { i \in 1..Len(eventsChan.queue) : eventsChan.queue[i].type = type }

\* C17: the proxy publishes one ConnectionOpened for the connection, before
\* every Event and before the ConnectionClosed, never a second one; once the
\* connection task has ended it has published exactly one ConnectionClosed,
\* also when the upstream connect failed or timed out and no relay task
\* was spawned.
C17_OpenedOnceClosedOnce ==
    /\ eventsChan.queue # <<>> => MessagesOf("ConnectionOpened") = {1}
    /\ connTask.pc # "accepted" => MessagesOf("ConnectionOpened") = {1}
    /\ Cardinality(MessagesOf("ConnectionClosed")) =
           IF connTask.pc = "closed" THEN 1 ELSE 0
    /\ (connTask.pc = "closed" /\ frontend.pc = "unspawned") =>
           eventsChan.queue = << ProxyConnectionOpened(CONN_ID),
                                 ProxyConnectionClosed(CONN_ID) >>

\* the connection ended after its relay tasks had published events, and the
\* ConnectionClosed is in the channel
C17_Witness ==
    /\ connTask.pc = "closed"
    /\ MessagesOf("ConnectionOpened") = {1}
    /\ MessagesOf("Event") # {}
    /\ Cardinality(MessagesOf("ConnectionClosed")) = 1

\* C38: no Event message of the connection is enqueued on the event channel
\* after its ConnectionClosed message, whatever the interleaving of the
\* relay tasks with the teardown of the connection task.
C38_NoEventAfterClosed ==
    \A i \in MessagesOf("ConnectionClosed") :
        \A j \in MessagesOf("Event") : j < i

\* relay_frontend has read: parse_buf holds at least 8 bytes, the version
\* code 80877103 among them, and the parser awaits the startup packet
SslRequestRead ==
    /\ frontend.pc = "read"
    /\ frontend'.pc \in {"intercept", "forward"}
    /\ parser.phase \in {AwaitingStartup, AwaitingStartupAfterSslReject}
    /\ Len(frontend'.parse_buf) >= 8
    /\ from_be_bytes(frontend'.parse_buf[5], frontend'.parse_buf[6],
                     frontend'.parse_buf[7], frontend'.parse_buf[8]) = SSL_REQUEST_CODE

\* C14: when relay_frontend calls handle_startup_intercept in a phase that
\* awaits the startup packet on at least 8 bytes with the version code
\* 80877103, the reply is the one byte 'N' and the phase becomes
\* AwaitingStartupAfterSslReject; the task's next step puts that byte on the
\* interception channel, whose bytes the client writer sends to the client.
C14_SslRequestAnsweredN ==
    [][ /\ SslRequestRead =>
            /\ frontend'.pc = "intercept"
            /\ frontend'.intercept_response = Some(<<b_N>>)
            /\ parser'.phase = AwaitingStartupAfterSslReject
        /\ frontend.pc = "intercept" /\ frontend' # frontend =>
            /\ parser.phase = AwaitingStartupAfterSslReject
            /\ interceptChan' = Append(interceptChan, <<b_N>>)
        /\ interceptChan' # interceptChan /\ Len(interceptChan') < Len(interceptChan) =>
            clientWriter'.data = [src |-> 0, bytes |-> <<b_N>>]
      ]_vars

\* the client has received the 'N' and the parser awaits its StartupMessage
C14_Witness ==
    /\ clientSock.wr = << [b |-> b_N, src |-> 0] >>
    /\ parser.phase = AwaitingStartupAfterSslReject
    /\ frontend.pc = "read"

----------------------------------------------------------------------------
(* SpecSplit: the frames of one direction arrive split across reads at     *)
(* every offset; the relay task of that direction reads, parses and emits. *)

\* what the client sends: StartupMessage, Query, Parse s1, Bind p1 -> s1,
\* Execute p1
SplitFrontendFrames ==
    << make_startup_message(STARTUP_VERSION_3_0),
       make_query_message(SqlA),
       make_parse_message(<<115, 49>>, SqlB),
       make_bind_message(<<112, 49>>, <<115, 49>>),
       make_execute_message(<<112, 49>>) >>

\* what the server sends: CommandComplete, ReadyForQuery
SplitBackendFrames ==
    << make_command_complete(RelayTag), make_ready_for_query(b_I) >>

\* the three tasks are spawned; one of the two sockets delivers its frames,
\* a read may end at every offset; the client writer task is not scheduled
InitSplit ==
    /\ StatsIdle
    /\ ParserIdle
    /\ \E direction \in {Frontend, Backend} :
         /\ clientSock =
              IF direction = Frontend
              THEN ClientSocket([packets |-> SplitFrontendFrames, ssl |-> {}],
                                1..Len(Flatten(SplitFrontendFrames)))
              ELSE ClientSocket([packets |-> <<>>, ssl |-> {}], {})
         /\ upstreamSock =
              [wr |-> <<>>, idx |-> <<>>, srvpos |-> 0, srvphase |-> "startup",
               out |-> IF direction = Backend THEN Flatten(SplitBackendFrames) ELSE <<>>,
               cuts |-> IF direction = Backend
                        THEN 1..Len(Flatten(SplitBackendFrames)) ELSE {},
               rd |-> 0, eof |-> FALSE]
    /\ frontend = [pc |-> "read", n |-> 0, parse_buf |-> <<>>, off |-> 0,
                   intercept_response |-> None, events |-> <<>>]
    /\ backend = [pc |-> "read", parse_buf |-> <<>>, events |-> <<>>, chunks |-> 0]
    /\ clientWriter = [pc |-> "select", data |-> [src |-> 0, bytes |-> <<>>]]
    /\ interceptChan = <<>>
    /\ clientWriteChan = <<>>
    /\ eventsChan = [queue |-> <<>>, backlog |-> 0]
    /\ connTask = [pc |-> "select", aborted |-> FALSE]

NextSplit ==
    \/ \E n \in 1..Len(clientSock.out) : FrontendRead(n)
    \/ FrontendForward
    \/ FrontendParse
    \/ FrontendEmit
    \/ \E n \in 1..Len(upstreamSock.out) : BackendRead(n)
    \/ BackendParse
    \/ BackendEmit

SpecSplit == InitSplit /\ [][NextSplit]_vars

\* the direction that delivers frames: its frames, its task, the bytes read
SplitDirection == IF clientSock.out # <<>> THEN Frontend ELSE Backend
SplitFrames == IF SplitDirection = Frontend THEN SplitFrontendFrames ELSE SplitBackendFrames
SplitTask == IF SplitDirection = Frontend THEN frontend ELSE backend
SplitRead == IF SplitDirection = Frontend THEN clientSock.rd ELSE upstreamSock.rd

\* the events of a single read that returns all the frames at once
OneReadEvents ==
    parse_loop(PostgresParser_new, Flatten(SplitFrames), SplitDirection, <<>>).events

\* the events the task has emitted, and those it holds to emit
SplitEmitted ==
    [i \in 1..Len(eventsChan.queue) |-> eventsChan.queue[i].event] \o SplitTask.events

\* how many frames end within the first rd bytes
FramesWithin(rd) == Cardinality({ e \in PacketEnds(SplitFrames, 0) : e <= rd })

\* C13: however the bytes of the frames are split into reads, the events
\* emitted are those of a single read of all the frames, one per frame and
\* in frame order: after each parse loop there is one event for every frame
\* read completely, and no frame ever takes the interception path.
C13_EventsIgnoreReadBoundaries ==
    /\ Len(OneReadEvents) = Len(SplitFrames)
    /\ IsPrefix(SplitEmitted, OneReadEvents)
    /\ SplitTask.pc \in {"read", "emit"} => Len(SplitEmitted) = FramesWithin(SplitRead)
    /\ frontend.pc # "intercept"

\* a read ended inside the last frame: its bytes wait in parse_buf for the
\* next read, and the frames before it have been emitted, one event each
C13_Witness ==
    /\ SplitTask.pc = "read"
    /\ SplitTask.parse_buf # <<>>
    /\ Len(eventsChan.queue) = Len(SplitFrames) - 1
    /\ eventsChan.queue[Len(eventsChan.queue)].event = OneReadEvents[Len(SplitFrames) - 1]

----------------------------------------------------------------------------
(* The relay's claims *)

RECURSIVE Without(_, _)
\* the members of the sequence seq that are not in the set drop, in order
Without(seq, drop) ==
    IF seq = <<>> THEN <<>>
    ELSE IF Head(seq) \in drop THEN Without(Tail(seq), drop)
    ELSE <<Head(seq)>> \o Without(Tail(seq), drop)

RECURSIVE BackendBytes(_)
\* the bytes on the client's socket that came through the client-writer
\* channel, the intercepted replies left out
BackendBytes(wr) ==
    IF wr = <<>> THEN <<>>
    ELSE IF Head(wr).src = 0 THEN BackendBytes(Tail(wr))
    ELSE <<Head(wr).b>> \o BackendBytes(Tail(wr))

\* how many of the first k messages of the event channel are events of a type in types
CountEvents(k, types) ==
    Cardinality({ i \in 1..k : /\ eventsChan.queue[i].type = "Event"
                               /\ eventsChan.queue[i].event.type \in types })

\* C1: no byte of the client's SSLRequest is ever written to the upstream
\* socket, however the client's bytes are split across reads.
C1_NoSslByteUpstream ==
    \A i \in 1..Len(upstreamSock.idx) : upstreamSock.idx[i] \notin clientSock.ssl

\* C2: the client bytes that are not part of an SSLRequest are written
\* upstream exactly once and in the order read: what was written is a
\* prefix of them, and all of those read once an iteration has forwarded.
C2_OtherBytesOnceInOrder ==
    LET written == Without(upstreamSock.idx, clientSock.ssl)
        read == Without(RangeSeq(1, clientSock.rd), clientSock.ssl)
    IN  /\ IsPrefix(written, read)
        /\ frontend.pc \in {"read", "parse", "emit", "done"} => written = read

\* C3: once the connection is torn down and its three tasks have ended,
\* every byte relay_backend read from upstream is on the client's socket.
C3_TeardownKeepsBackendBytes ==
    (Ended(frontend) /\ Ended(backend) /\ Ended(clientWriter)) =>
        BackendBytes(clientSock.wr) = SubSeq(upstreamSock.out, 1, upstreamSock.rd)

\* C4: the bytes written to the client without the intercepted 'N' replies
\* are a prefix of the bytes read from upstream, and the bytes of one
\* backend chunk are contiguous on the client's socket.
C4_ClientSeesBackendPrefix ==
    /\ IsPrefix(BackendBytes(clientSock.wr),
                SubSeq(upstreamSock.out, 1, upstreamSock.rd))
    /\ \A i \in 1..Len(clientSock.wr) : clientSock.wr[i].src = 0 => clientSock.wr[i].b = b_N
    /\ \A i, j \in 1..Len(clientSock.wr) :
         (i < j /\ clientSock.wr[i].src > 0 /\ clientSock.wr[i].src = clientSock.wr[j].src) =>
             \A m \in i..j : clientSock.wr[m].src = clientSock.wr[i].src

\* an 'N' reply went out between two backend chunks and a third is half written
C4_Witness ==
    /\ \E i \in 2..(Len(clientSock.wr) - 1) :
         /\ clientSock.wr[i].src = 0
         /\ clientSock.wr[i - 1].src > 0
         /\ clientSock.wr[i + 1].src > 0
    /\ clientWriter.pc = "write"
    /\ clientWriter.data.src > 0
    /\ clientSock.wr[Len(clientSock.wr)].src = clientWriter.data.src

\* C5: a relay task that has an event to enqueue, and the accept loop with
\* its ConnectionOpened, can always take that step: a full event channel
\* holds up nobody.
C5_EventChannelNeverBlocks ==
    /\ frontend.pc = "emit" => ENABLED FrontendEmit
    /\ backend.pc = "emit" => ENABLED BackendEmit
    /\ connTask.pc = "accepted" => ENABLED SendConnectionOpened

\* C6: in the event channel the QueryStart of a query comes before the
\* QueryComplete, QueryError or ConnectionReady the server sent in answer
\* to it: no prefix of the channel holds more answers than queries (one
\* ConnectionReady answers the startup).
C6_QueryStartEnqueuedFirst ==
    \A k \in 1..Len(eventsChan.queue) :
        /\ CountEvents(k, {"QueryComplete", "QueryError"}) <= CountEvents(k, {"QueryStart"})
        /\ CountEvents(k, {"ConnectionReady"}) <= 1 + CountEvents(k, {"QueryStart"})

====
